---- MODULE Spec2Model ----
(***************************************************************************)
(* Marina: the incremental embedding synchronisation of                    *)
(* POST /api/embeddings (src/app/api/embeddings/route.ts), the Drive       *)
(* client it calls (src/lib/google-drive/client.ts), the embedding         *)
(* generator (lib/openai/embeddings) and the chat page that triggers it.   *)
(***************************************************************************)
EXTENDS Integers, Sequences, FiniteSets, TLC

\* ------------------------------------------------------------------ bounds
MaxFiles == 6
MaxPasses == 2
MaxFaults == 2
MaxBatchLen == 3
MaxRecords == 3
MaxPages == 3
MaxChunks == 2
MaxChatRecords == 6

\* --------------------------------------------------------- program constants
BATCH_SIZE == 5

\* null / undefined: a file id that names no file, and the record a Map.get miss yields
NoId == 0
NoRecord == [fileId |-> NoId, modifiedTime |-> "none", extractedAt |-> 0,
             vector |-> <<>>]
\* undefined for an optional number (limit, similarityThreshold)
Undefined == -1000000
Times == {"T1", "T2"}
FileIds == 1..MaxFiles

VARIABLES
  numFiles,           \* how many supported files the user's Drive holds (ids 1..numFiles)
  driveTime,          \* Drive: file id -> the file's current modifiedTime
  remoteSnapshots,    \* Drive: the files named marina-embeddings.json, each [id, embeddings]
  lastFailed,         \* history: the files the last pass that wrote a snapshot failed to embed
  pc,                 \* where the POST handler's stream start() stands
  clock,              \* the Drive's logical time: the number of snapshot uploads so far
  now,                \* POST: the value new Date() yields in this pass
  files,              \* POST: result of scanAllFiles
  found,              \* POST: result of searchEmbeddingsFile (a snapshot file id or NoId)
  existingEmbeddings, \* POST: embeddings of the downloaded snapshot
  toEmbed,            \* POST: the filtered listing
  embedded,           \* POST: the accumulating record sequence
  completed,          \* POST: progress counter
  batchStart,         \* POST: loop variable i of the batch loop
  task,               \* POST: per toEmbed index, the state of its batch promise
  events,             \* the events enqueued on the response stream, in order
  closed,             \* controller.close() was called
  fetchLog,           \* file ids for which downloadFileContent was called in this pass
  embedLog,           \* file ids for which the embedding model was called in this pass
  uploadLog,          \* the uploadEmbeddingsFile calls of this pass: [data, existingFileId]
  failedAt,           \* the call of this pass that threw into the catch of start(), or "none"
  faults,             \* number of per-file failures and remote modifications so far
  pagePc,             \* chat page: position of loadEmbeddings
  pageEmbeddings,     \* chat page: the embeddings state (<<>> with pageLoaded FALSE is null)
  pageLoaded,         \* chat page: setEmbeddings was called
  pagePosted,         \* chat page: loadEmbeddings issued POST /api/embeddings
  pageStale,          \* chat page: a listed file was stale in the snapshot when the page opened
  batchFiles,         \* generateEmbeddingsBatch: the files argument
  batchPc,            \* generateEmbeddingsBatch: position of the call
  batchI,             \* generateEmbeddingsBatch: loop variable i
  textContent,        \* generateEmbeddingsBatch: the extracted text of files[i]
  embeddings,         \* generateEmbeddingsBatch: the result array
  progress,           \* generateEmbeddingsBatch: the onProgress calls, in order
  modelCalls,         \* the openai.embeddings.create calls: [file, result]
  searchEmbeddings,   \* performSimilaritySearch: the embeddings argument
  query,              \* performSimilaritySearch: the query argument
  searchPc,           \* performSimilaritySearch: position of the call
  searchResult,       \* performSimilaritySearch: the VectorSearchResult returned
  clientCall,         \* Drive client: the function called, its argument and what the Drive holds
  clientPc,           \* Drive client: position of the call
  clientLocals,       \* Drive client: scanAllFiles' allFiles and nextPageToken
  driveLog,           \* Drive client: the requests sent to the Drive API, in order
  clientResult,       \* Drive client: what the call returned or threw
  chatRequest,        \* chat route: the request (authorization header, question)
  chatPc,             \* chat route: position of the POST handler
  chatLocals,         \* chat route: embeddings, matches, contextDocs, citations
  chatCalls,          \* chat route: the collaborators called, in order
  chatResponse,       \* chat route: the response returned
  streamCall,         \* streamChatCompletion: the callbacks passed and what the model stream does
  streamPc,           \* streamChatCompletion: position of the call
  streamPos,          \* streamChatCompletion: chunks read so far
  callbackLog,        \* streamChatCompletion: the callbacks invoked, in order
  vectorArgs,         \* vector functions: the arguments of the call
  vectorPc,           \* vector functions: position of the call
  vectorResult,       \* vector functions: the value returned or the Error thrown
  embedCall,          \* generateEmbedding: the text argument and how the model call ends
  embedPc,            \* generateEmbedding: position of the call
  createLog,          \* generateEmbedding: the openai.embeddings.create requests, in order
  embedResult,        \* generateEmbedding: the value returned or the Error thrown
  uiSession,          \* chat page: what useSession returns (status, accessToken, error)
  uiDeps,             \* chat page: the dependency value of the last run of the load effect
  uiPc,               \* chat page: position of loadEmbeddings
  uiState,            \* chat page: isLoading, error, embeddings, embeddingProgress
  uiRequests,         \* chat page: the requests sent to /api/embeddings and their replies
  uiFrames,           \* chat page: the events read from the progress stream, in order
  authToken,          \* auth: the JWT kept between callbacks
  authNow,            \* auth: Date.now()
  authSession,        \* auth: the session built by the last session callback
  refreshLog          \* auth: the outcomes of the refresh requests, in order

vars == <<numFiles, driveTime, remoteSnapshots, lastFailed, pc, clock, now, files, found,
          existingEmbeddings, toEmbed, embedded, completed, batchStart, task,
          events, closed, fetchLog, embedLog, uploadLog, failedAt, faults,
          pagePc, pageEmbeddings, pageLoaded, pagePosted, pageStale,
          batchFiles, batchPc, batchI, textContent, embeddings, progress, modelCalls,
          searchEmbeddings, query, searchPc, searchResult,
          clientCall, clientPc, clientLocals, driveLog, clientResult,
          chatRequest, chatPc, chatLocals, chatCalls, chatResponse,
          streamCall, streamPc, streamPos, callbackLog,
          vectorArgs, vectorPc, vectorResult,
          embedCall, embedPc, createLog, embedResult,
          uiSession, uiDeps, uiPc, uiState, uiRequests, uiFrames,
          authToken, authNow, authSession, refreshLog>>

remoteVars == <<numFiles, driveTime, remoteSnapshots, lastFailed>>
passVars == <<pc, clock, now, files, found, existingEmbeddings, toEmbed, embedded,
              completed, batchStart, task, events, closed, fetchLog, embedLog,
              uploadLog, failedAt>>
pageVars == <<pagePc, pageEmbeddings, pageLoaded, pagePosted, pageStale>>
batchVars == <<batchFiles, batchPc, batchI, textContent, embeddings, progress, modelCalls>>
searchVars == <<searchEmbeddings, query, searchPc, searchResult>>
clientVars == <<clientCall, clientPc, clientLocals, driveLog, clientResult>>
chatVars == <<chatRequest, chatPc, chatLocals, chatCalls, chatResponse>>
streamVars == <<streamCall, streamPc, streamPos, callbackLog>>
vectorVars == <<vectorArgs, vectorPc, vectorResult>>
embedVars == <<embedCall, embedPc, createLog, embedResult>>
uiVars == <<uiSession, uiDeps, uiPc, uiState, uiRequests, uiFrames>>
authVars == <<authToken, authNow, authSession, refreshLog>>
extVars == <<embedVars, uiVars, authVars>>
libVars == <<batchVars, searchVars, clientVars, chatVars, streamVars, vectorVars,
             extVars>>

\* ------------------------------------------------------------------ helpers
Min(a, b) == IF a < b THEN a ELSE b

Range(s) == {s[k] : k \in 1..Len(s)}

\* DriveFile as listed by scanAllFiles: id and modifiedTime (name is the id)
DriveFile(id) == [id |-> id, modifiedTime |-> driveTime[id]]

\* scanAllFiles' result: the supported files in listing order; dup > 0 names an
\* entry the paginated listing returns a second time
Listing(n, dup) ==
  [k \in 1..(n + (IF dup > 0 THEN 1 ELSE 0)) |->
     IF dup > 0 /\ k > dup THEN DriveFile(k - 1) ELSE DriveFile(k)]

\* the entries a paginated listing may return twice: none, or the last file
DupChoices(n) == IF n > 0 THEN {0, n} ELSE {0}

\* the vector the embedding model returns: its length is the model's choice, and
\* differs here from one pass to the next
ModelVector == [i \in 1..now |-> 1]

\* an Embedding as generateEmbeddingsBatch builds it from a file
Embedding(file) ==
  [fileId |-> file.id, modifiedTime |-> file.modifiedTime, extractedAt |-> now,
   vector |-> ModelVector]

\* new Map(existingEmbeddings.map(e => [e.fileId, e])).get(id): the last record wins
MapGet(embs, id) ==
  LET idx == {k \in 1..Len(embs) : embs[k].fileId = id}
  IN IF idx = {} THEN NoRecord
     ELSE embs[CHOOSE k \in idx : \A j \in idx : j <= k]

\* mutants of the filter predicate: the modifiedTime comparison dropped; every
\* listed file taken
NeedsEmbedding_NewOnly(file, embs) == MapGet(embs, file.id) = NoRecord
NeedsEmbedding_All(file, embs) == TRUE

\* the filter predicate of step 3
NeedsEmbedding(file, embs) ==
  LET existing == MapGet(embs, file.id)
  IN IF existing = NoRecord THEN TRUE
     ELSE existing.modifiedTime # file.modifiedTime

ToEmbed(listing, embs) == SelectSeq(listing, LAMBDA f : NeedsEmbedding(f, embs))

\* toEmbed.slice(i, i + BATCH_SIZE), as indexes into toEmbed (i is 0-based)
BatchIdx(i, n) == (i + 1)..Min(i + BATCH_SIZE, n)

Settled(st) == st \in {"ok", "none"}
Outstanding(st) == st \in {"fetching", "embedding"}

\* mutant: the batch is joined as soon as one task has settled (Promise.race)
AllSettled_Any(tk, i) == \E k \in BatchIdx(i, Len(tk)) : Settled(tk[k])

\* Promise.allSettled(batchPromises) resolves
AllSettled(tk, i) == \A k \in BatchIdx(i, Len(tk)) : Settled(tk[k])

\* mutant: the new record is pushed without removing the old one
MergeOne_NoFilter(acc, emb) == Append(acc, emb)

\* mutant: the new record is put in front of the kept ones (unshift)
MergeOne_Front(acc, emb) ==
  <<emb>> \o SelectSeq(acc, LAMBDA e : e.fileId # emb.fileId)

\* embedded.filter(e => e.fileId !== file.id); embedded.push(embedding)
MergeOne(acc, emb) ==
  Append(SelectSeq(acc, LAMBDA e : e.fileId # emb.fileId), emb)

StartEvent(listing, te, existing) ==
  [type |-> "start", total |-> Len(listing), toEmbed |-> Len(te),
   existing |-> Len(existing)]
\* mutant: current counts the results of the running batch only
ProgressEvent_InBatch(cur, tot, file) ==
  [type |-> "progress", current |-> cur - batchStart, total |-> tot,
   fileName |-> file.id, status |-> "completed"]
ProgressEvent(cur, tot, file) ==
  [type |-> "progress", current |-> cur, total |-> tot, fileName |-> file.id,
   status |-> "completed"]
\* mutant: the per-file error event carries no fileName
FileErrorEvent_NoName(file) == [type |-> "error", fileName |-> NoId]
FileErrorEvent(file) == [type |-> "error", fileName |-> file.id]
FinalErrorEvent == [type |-> "error", fileName |-> NoId]
\* mutant: processed counts the records added in this pass, existing the loaded
\* records still present
CompleteEvent_Net(emb, te, existing) ==
  [type |-> "complete", total |-> Len(emb),
   processed |-> Len(SelectSeq(emb, LAMBDA r : r \notin Range(existing))),
   existing |-> Len(SelectSeq(emb, LAMBDA r : r \in Range(existing)))]
CompleteEvent(emb, te, existing) ==
  [type |-> "complete", total |-> Len(emb), processed |-> Len(te),
   existing |-> Len(existing)]

\* mutant: a file without embedding gets a record with an empty vector
RECURSIVE MergeBatch_RecordFailures(_, _, _, _, _, _)
MergeBatch_RecordFailures(k, last, tk, acc, done, evs) ==
  IF k > last THEN [embedded |-> acc, completed |-> done, events |-> evs]
  ELSE IF tk[k] = "ok"
       THEN MergeBatch_RecordFailures(
              k + 1, last, tk, MergeOne(acc, Embedding(toEmbed[k])), done + 1,
              Append(evs, ProgressEvent(done + 1, Len(toEmbed), toEmbed[k])))
       ELSE MergeBatch_RecordFailures(
              k + 1, last, tk,
              MergeOne(acc, [Embedding(toEmbed[k]) EXCEPT !.vector = <<>>]), done + 1,
              Append(evs, FileErrorEvent(toEmbed[k])))

\* the result loop over batchResults, from toEmbed index k to index last
RECURSIVE MergeBatch(_, _, _, _, _, _)
MergeBatch(k, last, tk, acc, done, evs) ==
  IF k > last THEN [embedded |-> acc, completed |-> done, events |-> evs]
  ELSE IF tk[k] = "ok"
       THEN MergeBatch(k + 1, last, tk, MergeOne(acc, Embedding(toEmbed[k])),
                       done + 1,
                       Append(evs, ProgressEvent(done + 1, Len(toEmbed), toEmbed[k])))
       ELSE MergeBatch(k + 1, last, tk, acc, done + 1,
                       Append(evs, FileErrorEvent(toEmbed[k])))

\* the files to embed none of whose tasks fulfilled with an embedding
FailedFiles(te, tk) ==
  {te[k] : k \in {j \in 1..Len(te) :
                    /\ tk[j] = "none"
                    /\ \A h \in 1..Len(te) : te[h].id = te[j].id => tk[h] # "ok"}}

\* the third argument of the uploadEmbeddingsFile call of step 6
UploadFileIdArg(f) == NoId

\* mutant: the dimension is embedded[0]?.vector.length, undefined with no record
EmbeddingsFile_NoDefault(listing, emb) ==
  [version |-> "1.0", generatedAt |-> now, totalFiles |-> Len(listing),
   embeddings |-> emb,
   metadata |-> [openaiModel |-> "text-embedding-3-small",
                 embeddingDimension |->
                   IF emb = <<>> THEN Undefined ELSE Len(emb[1].vector)]]
\* the EmbeddingsFile of step 6; generatedAt is the time of the pass
EmbeddingsFile(listing, emb) ==
  [version |-> "1.0", generatedAt |-> now, totalFiles |-> Len(listing),
   embeddings |-> emb,
   metadata |-> [openaiModel |-> "text-embedding-3-small",
                 embeddingDimension |->
                   IF emb = <<>> \/ Len(emb[1].vector) = 0 THEN 0
                   ELSE Len(emb[1].vector)]]

\* uploadEmbeddingsFile on the Drive: update in place with an id, else create
DriveAfterUpload(snaps, data, existingFileId) ==
  IF existingFileId # NoId
  THEN [s \in 1..Len(snaps) |->
          IF snaps[s].id = existingFileId
          THEN [id |-> snaps[s].id, embeddings |-> data.embeddings]
          ELSE snaps[s]]
  ELSE Append(snaps, [id |-> Len(snaps) + 1, embeddings |-> data.embeddings])

\* ---------------------------------------------------------------- the model
\* no generateEmbeddingsBatch call is being followed
BatchIdle ==
  /\ batchFiles = <<>>
  /\ batchPc = "idle"
  /\ batchI = 0
  /\ textContent = <<>>
  /\ embeddings = <<>>
  /\ progress = <<>>
  /\ modelCalls = <<>>

\* clientLocals.rejected: the last request to the Drive API was rejected
\* a call that has neither returned nor thrown
NoResult == [threw |-> FALSE, error |-> "", value |-> <<>>]
NoFile == [id |-> <<>>, mimeType |-> ""]
NoPayload == [syntax |-> "none", embeddings |-> "absent", version |-> "absent",
              generatedAt |-> "absent", totalFiles |-> "absent", metadata |-> "absent"]
NoCall == [copy |-> "", fn |-> "", pages |-> <<>>, file |-> NoFile, payload |-> NoPayload,
           dataType |-> ""]
NoLocals == [allFiles |-> <<>>, nextPageToken |-> 0, rejected |-> FALSE]

\* no Drive client call is being followed
ClientIdle ==
  /\ clientCall = NoCall
  /\ clientPc = "idle"
  /\ clientLocals = NoLocals
  /\ driveLog = <<>>
  /\ clientResult = NoResult

NoRequest == [auth |-> FALSE, question |-> <<>>]
NoChatLocals == [embeddings |-> <<>>, embedding |-> "", matches |-> <<>>,
                 contextDocs |-> <<>>, citations |-> <<>>]
NoResponse == [status |-> 0, body |-> "", error |-> ""]

\* no chat request is being followed
ChatIdle ==
  /\ chatRequest = NoRequest
  /\ chatPc = "idle"
  /\ chatLocals = NoChatLocals
  /\ chatCalls = <<>>
  /\ chatResponse = NoResponse

NoStreamCall == [chunks |-> <<>>, createFails |-> FALSE, breaksAfter |-> Undefined,
                 onToken |-> "returns", onDone |-> "absent", onError |-> "absent"]

\* no streamChatCompletion call is being followed
StreamIdle ==
  /\ streamCall = NoStreamCall
  /\ streamPc = "idle"
  /\ streamPos = 0
  /\ callbackLog = <<>>

NoVectorArgs == [fn |-> "", a |-> <<>>, b |-> <<>>]
NoVectorResult == [threw |-> FALSE, value |-> <<>>, error |-> ""]

\* no vector function call is being followed
VectorIdle ==
  /\ vectorArgs = NoVectorArgs
  /\ vectorPc = "idle"
  /\ vectorResult = NoVectorResult

NoEmbedCall == [text |-> <<>>, upstream |-> [kind |-> "none"]]
NoEmbedResult == [threw |-> FALSE, value |-> <<>>, message |-> <<>>]

\* no generateEmbedding call is being followed
EmbedIdle ==
  /\ embedCall = NoEmbedCall
  /\ embedPc = "idle"
  /\ createLog = <<>>
  /\ embedResult = NoEmbedResult

NoSession == [status |-> "none", accessToken |-> FALSE, error |-> FALSE]
\* the useState initial values of the chat page
InitialUiState == [isLoading |-> FALSE, error |-> "", embeddings |-> "null",
                   progress |-> <<>>]

\* no chat page is being followed
UiIdle ==
  /\ uiSession = NoSession
  /\ uiDeps = "unmounted"
  /\ uiPc = "idle"
  /\ uiState = InitialUiState
  /\ uiRequests = <<>>
  /\ uiFrames = <<>>

NoToken == [accessToken |-> 0, accessTokenExpires |-> 0, refreshToken |-> 0,
            error |-> ""]
NoAuthSession == [accessToken |-> 0, error |-> ""]

\* no sign-in is being followed
AuthIdle ==
  /\ authToken = NoToken
  /\ authNow = 0
  /\ authSession = NoAuthSession
  /\ refreshLog = <<>>

\* the parts followed by one specification each are at rest
ExtIdle ==
  /\ EmbedIdle
  /\ UiIdle
  /\ AuthIdle

\* no performSimilaritySearch call is being followed
SearchIdle ==
  /\ searchEmbeddings = <<>>
  /\ query = [queryVector |-> <<>>, limit |-> Undefined,
              similarityThreshold |-> Undefined]
  /\ searchPc = "idle"
  /\ searchResult = [matches |-> <<>>, totalMatches |-> 0]

Init ==
  /\ numFiles \in 0..MaxFiles
  /\ driveTime = [id \in FileIds |-> "T1"]
  /\ remoteSnapshots = <<>>
  /\ lastFailed = {}
  /\ pc = "idle"
  /\ clock = 0
  /\ now = 0
  /\ files = <<>>
  /\ found = NoId
  /\ existingEmbeddings = <<>>
  /\ toEmbed = <<>>
  /\ embedded = <<>>
  /\ completed = 0
  /\ batchStart = 0
  /\ task = <<>>
  /\ events = <<>>
  /\ closed = FALSE
  /\ fetchLog = {}
  /\ embedLog = {}
  /\ uploadLog = <<>>
  /\ failedAt = "none"
  /\ faults = 0
  /\ pagePc = "closed"
  /\ pageEmbeddings = <<>>
  /\ pageLoaded = FALSE
  /\ pagePosted = FALSE
  /\ pageStale = FALSE
  /\ BatchIdle
  /\ SearchIdle
  /\ ClientIdle
  /\ ChatIdle
  /\ StreamIdle
  /\ VectorIdle
  /\ ExtIdle

NoPassRunning == pc \in {"idle", "done", "aborted"}

\* the user's file is modified on the Drive between two passes
Touch(id) ==
  /\ NoPassRunning
  /\ pagePc = "closed"
  /\ remoteSnapshots # <<>>
  /\ faults < MaxFaults
  /\ id \in 1..numFiles
  /\ faults' = faults + 1
  /\ driveTime' = [driveTime EXCEPT ![id] = CHOOSE t \in Times : t # driveTime[id]]
  /\ UNCHANGED <<numFiles, remoteSnapshots, lastFailed>>
  /\ UNCHANGED passVars
  /\ UNCHANGED pageVars
  /\ UNCHANGED libVars

\* the user removes a file from the Drive between two passes: scanAllFiles no
\* longer lists it
Trash ==
  /\ NoPassRunning
  /\ pagePc = "closed"
  /\ remoteSnapshots # <<>>
  /\ faults < MaxFaults
  /\ numFiles > 0
  /\ faults' = faults + 1
  /\ numFiles' = numFiles - 1
  /\ UNCHANGED <<driveTime, remoteSnapshots, lastFailed>>
  /\ UNCHANGED passVars
  /\ UNCHANGED pageVars
  /\ UNCHANGED libVars

\* the locals of a POST request that has not run yet (or whose handler is gone)
FreshLocals ==
  /\ files' = <<>>
  /\ found' = NoId
  /\ existingEmbeddings' = <<>>
  /\ toEmbed' = <<>>
  /\ embedded' = <<>>
  /\ completed' = 0
  /\ batchStart' = 0
  /\ task' = <<>>
  /\ events' = <<>>
  /\ closed' = FALSE
  /\ fetchLog' = {}
  /\ embedLog' = {}
  /\ uploadLog' = <<>>
  /\ failedAt' = "none"

\* POST: the stream's start() begins and calls scanAllFiles
BeginPass ==
  /\ NoPassRunning
  /\ clock < MaxPasses
  /\ now' = clock + 1
  /\ pc' = "scan"
  /\ FreshLocals
  /\ UNCHANGED <<faults, clock>>
  /\ UNCHANGED remoteVars

POST ==
  /\ pagePc = "closed"
  /\ BeginPass
  /\ UNCHANGED pageVars
  /\ UNCHANGED libVars

\* the catch of start(): final error event, controller.close()
Abort(call) ==
  /\ failedAt' = call
  /\ events' = Append(events, FinalErrorEvent)
  /\ closed' = TRUE
  /\ pc' = "aborted"

\* the for loop's test at i, then either the batch's tasks start (each runs to
\* its first await, the downloadFileContent call) or step 6 calls uploadEmbeddingsFile
EnterBatch(i, listing, te, tk, acc, fnd) ==
  IF i < Len(te)
  THEN /\ pc' = "batch"
       /\ batchStart' = i
       /\ task' = [k \in 1..Len(te) |->
                     IF k \in BatchIdx(i, Len(te)) THEN "fetching" ELSE tk[k]]
       /\ fetchLog' = fetchLog \cup {te[k].id : k \in BatchIdx(i, Len(te))}
       /\ uploadLog' = uploadLog
  ELSE /\ pc' = "upload"
       /\ batchStart' = i
       /\ task' = tk
       /\ fetchLog' = fetchLog
       /\ uploadLog' = Append(uploadLog,
                              [data |-> EmbeddingsFile(listing, acc),
                               existingFileId |-> UploadFileIdArg(fnd)])

\* steps 3, 4 and the entry of step 5, run without an await once the snapshot is loaded
DiffAndStart(fnd, existing) ==
  LET te == ToEmbed(files, existing)
  IN /\ found' = fnd
     /\ existingEmbeddings' = existing
     /\ toEmbed' = te
     /\ events' = Append(events, StartEvent(files, te, existing))
     /\ embedded' = existing
     /\ completed' = 0
     /\ EnterBatch(0, files, te, [k \in 1..Len(te) |-> "waiting"], existing, fnd)
     /\ UNCHANGED <<files, clock, now, closed, embedLog, failedAt>>

ScanAllFilesOk ==
  /\ pc = "scan"
  /\ \E dup \in DupChoices(numFiles) : files' = Listing(numFiles, dup)
  /\ pc' = "search"
  /\ UNCHANGED <<clock, now, found, existingEmbeddings, toEmbed, embedded, completed,
                 batchStart, task, events, closed, fetchLog, embedLog, uploadLog,
                 failedAt>>
  /\ UNCHANGED faults
  /\ UNCHANGED remoteVars
  /\ UNCHANGED pageVars
  /\ UNCHANGED libVars

ScanAllFilesFail ==
  /\ pc = "scan"
  /\ Abort("scan")
  /\ UNCHANGED <<clock, now, files, found, existingEmbeddings, toEmbed, embedded,
                 completed, batchStart, task, fetchLog, embedLog, uploadLog>>
  /\ UNCHANGED faults
  /\ UNCHANGED remoteVars
  /\ UNCHANGED pageVars
  /\ UNCHANGED libVars

\* mutant: with no snapshot found, every listed file is taken as embedded
SearchNotFound_AllStale ==
  /\ pc = "search"
  /\ remoteSnapshots = <<>>
  /\ DiffAndStart(NoId, [k \in 1..Len(files) |-> Embedding(files[k])])
  /\ UNCHANGED faults
  /\ UNCHANGED remoteVars
  /\ UNCHANGED pageVars
  /\ UNCHANGED libVars

\* searchEmbeddingsFile returns null: no file of that name
SearchNotFound ==
  /\ pc = "search"
  /\ remoteSnapshots = <<>>
  /\ DiffAndStart(NoId, <<>>)
  /\ UNCHANGED faults
  /\ UNCHANGED remoteVars
  /\ UNCHANGED pageVars
  /\ UNCHANGED libVars

\* searchEmbeddingsFile returns files[0] of a query that states no order
SearchFound ==
  /\ pc = "search"
  /\ \E s \in 1..Len(remoteSnapshots) : found' = remoteSnapshots[s].id
  /\ pc' = "download"
  /\ UNCHANGED <<clock, now, files, existingEmbeddings, toEmbed, embedded, completed,
                 batchStart, task, events, closed, fetchLog, embedLog, uploadLog,
                 failedAt>>
  /\ UNCHANGED faults
  /\ UNCHANGED remoteVars
  /\ UNCHANGED pageVars
  /\ UNCHANGED libVars

SearchFail ==
  /\ pc = "search"
  /\ Abort("search")
  /\ UNCHANGED <<clock, now, files, found, existingEmbeddings, toEmbed, embedded,
                 completed, batchStart, task, fetchLog, embedLog, uploadLog>>
  /\ UNCHANGED faults
  /\ UNCHANGED remoteVars
  /\ UNCHANGED pageVars
  /\ UNCHANGED libVars

SnapshotById(id) ==
  remoteSnapshots[CHOOSE s \in 1..Len(remoteSnapshots) : remoteSnapshots[s].id = id]

DownloadOk ==
  /\ pc = "download"
  /\ DiffAndStart(found, SnapshotById(found).embeddings)
  /\ UNCHANGED faults
  /\ UNCHANGED remoteVars
  /\ UNCHANGED pageVars
  /\ UNCHANGED libVars

DownloadFail ==
  /\ pc = "download"
  /\ Abort("download")
  /\ UNCHANGED <<clock, now, files, found, existingEmbeddings, toEmbed, embedded,
                 completed, batchStart, task, fetchLog, embedLog, uploadLog>>
  /\ UNCHANGED faults
  /\ UNCHANGED remoteVars
  /\ UNCHANGED pageVars
  /\ UNCHANGED libVars

\* mutant: a task that fulfilled with no embedding rejects the whole join
\* (Promise.all on tasks that rethrow) and start() falls into its catch
AfterSettle_FailFast(tk) ==
  /\ task' = tk
  /\ UNCHANGED <<embedded, completed, uploadLog>>
  /\ IF \E k \in BatchIdx(batchStart, Len(tk)) : tk[k] = "none"
     THEN /\ events' = Append(events, FinalErrorEvent)
          /\ pc' = "aborted"
     ELSE UNCHANGED <<pc, events>>

\* mutant: the snapshot is uploaded after every batch, not once after the loop
AfterSettle_UploadEachBatch(tk) ==
  IF AllSettled(tk, batchStart)
  THEN LET m == MergeBatch(batchStart + 1, Min(batchStart + BATCH_SIZE, Len(toEmbed)),
                           tk, embedded, completed, events)
       IN /\ task' = tk
          /\ embedded' = m.embedded
          /\ completed' = m.completed
          /\ events' = m.events
          /\ pc' = IF batchStart + BATCH_SIZE < Len(toEmbed) THEN "delay" ELSE "upload"
          /\ uploadLog' = Append(uploadLog,
                                 [data |-> EmbeddingsFile(files, m.embedded),
                                  existingFileId |-> UploadFileIdArg(found)])
  ELSE /\ task' = tk
       /\ UNCHANGED <<pc, embedded, completed, events, uploadLog>>

\* mutant: each task pushes its record as soon as it settles
AfterSettle_MergeAsSettled(tk) ==
  IF AllSettled(tk, batchStart)
  THEN LET m == MergeBatch(batchStart + 1, Min(batchStart + BATCH_SIZE, Len(toEmbed)),
                           tk, embedded, completed, events)
       IN /\ task' = tk
          /\ embedded' = m.embedded
          /\ completed' = m.completed
          /\ events' = m.events
          /\ IF batchStart + BATCH_SIZE < Len(toEmbed)
             THEN /\ pc' = "delay"
                  /\ uploadLog' = uploadLog
             ELSE /\ pc' = "upload"
                  /\ uploadLog' = Append(uploadLog,
                                         [data |-> EmbeddingsFile(files, m.embedded),
                                          existingFileId |-> UploadFileIdArg(found)])
  ELSE /\ task' = tk
       /\ embedded' = LET k == CHOOSE j \in 1..Len(tk) : tk[j] # task[j]
                      IN IF tk[k] = "ok" THEN MergeOne(embedded, Embedding(toEmbed[k]))
                         ELSE embedded
       /\ UNCHANGED <<pc, completed, events, uploadLog>>

\* a task of the running batch has settled: when Promise.allSettled resolves, the
\* result loop merges and reports the whole batch, then the loop awaits the delay
\* or, after the last batch, step 6 calls uploadEmbeddingsFile
AfterSettle(tk) ==
  IF AllSettled(tk, batchStart)
  THEN LET m == MergeBatch(batchStart + 1, Min(batchStart + BATCH_SIZE, Len(toEmbed)),
                           tk, embedded, completed, events)
       IN /\ task' = tk
          /\ embedded' = m.embedded
          /\ completed' = m.completed
          /\ events' = m.events
          /\ IF batchStart + BATCH_SIZE < Len(toEmbed)
             THEN /\ pc' = "delay"
                  /\ uploadLog' = uploadLog
             ELSE /\ pc' = "upload"
                  /\ uploadLog' = Append(uploadLog,
                                         [data |-> EmbeddingsFile(files, m.embedded),
                                          existingFileId |-> UploadFileIdArg(found)])
  ELSE /\ task' = tk
       /\ UNCHANGED <<pc, embedded, completed, events, uploadLog>>

\* downloadFileContent resolved with text: generateEmbeddingsBatch extracts it and
\* calls the embedding model
FetchOk(k) ==
  /\ pc = "batch"
  /\ k \in DOMAIN task
  /\ task[k] = "fetching"
  /\ task' = [task EXCEPT ![k] = "embedding"]
  /\ embedLog' = embedLog \cup {toEmbed[k].id}
  /\ UNCHANGED <<pc, clock, now, files, found, existingEmbeddings, toEmbed, embedded,
                 completed, batchStart, events, closed, fetchLog, uploadLog, failedAt>>
  /\ UNCHANGED faults
  /\ UNCHANGED remoteVars
  /\ UNCHANGED pageVars
  /\ UNCHANGED libVars

\* downloadFileContent resolved with '' (failure or blank file): extractTextContent
\* yields '', the file is skipped and the task fulfils with no embedding
FetchBlank(k) ==
  /\ pc = "batch"
  /\ k \in DOMAIN task
  /\ task[k] = "fetching"
  /\ faults < MaxFaults
  /\ faults' = faults + 1
  /\ AfterSettle([task EXCEPT ![k] = "none"])
  /\ UNCHANGED <<clock, now, files, found, existingEmbeddings, toEmbed, batchStart,
                 closed, fetchLog, embedLog, failedAt>>
  /\ UNCHANGED remoteVars
  /\ UNCHANGED pageVars
  /\ UNCHANGED libVars

\* the embedding model answered: the task fulfils with the file's Embedding
EmbedOk(k) ==
  /\ pc = "batch"
  /\ k \in DOMAIN task
  /\ task[k] = "embedding"
  /\ AfterSettle([task EXCEPT ![k] = "ok"])
  /\ UNCHANGED <<clock, now, files, found, existingEmbeddings, toEmbed, batchStart,
                 closed, fetchLog, embedLog, failedAt>>
  /\ UNCHANGED faults
  /\ UNCHANGED remoteVars
  /\ UNCHANGED pageVars
  /\ UNCHANGED libVars

\* the embedding model call rejected: generateEmbeddingsBatch catches it and returns
\* no embedding, the task fulfils with embedding undefined
EmbedFail(k) ==
  /\ pc = "batch"
  /\ k \in DOMAIN task
  /\ task[k] = "embedding"
  /\ faults < MaxFaults
  /\ faults' = faults + 1
  /\ AfterSettle([task EXCEPT ![k] = "none"])
  /\ UNCHANGED <<clock, now, files, found, existingEmbeddings, toEmbed, batchStart,
                 closed, fetchLog, embedLog, failedAt>>
  /\ UNCHANGED remoteVars
  /\ UNCHANGED pageVars
  /\ UNCHANGED libVars

\* the BATCH_DELAY_MS timer fires: i += BATCH_SIZE and the next batch starts
DelayDone ==
  /\ pc = "delay"
  /\ EnterBatch(batchStart + BATCH_SIZE, files, toEmbed, task, embedded, found)
  /\ UNCHANGED <<clock, now, files, found, existingEmbeddings, toEmbed, embedded,
                 completed, events, closed, embedLog, failedAt>>
  /\ UNCHANGED faults
  /\ UNCHANGED remoteVars
  /\ UNCHANGED pageVars
  /\ UNCHANGED libVars

UploadOk ==
  /\ pc = "upload"
  /\ LET call == uploadLog[Len(uploadLog)]
     IN remoteSnapshots' = DriveAfterUpload(remoteSnapshots, call.data, call.existingFileId)
  /\ lastFailed' = FailedFiles(toEmbed, task)
  /\ events' = Append(events, CompleteEvent(embedded, toEmbed, existingEmbeddings))
  /\ closed' = TRUE
  /\ pc' = "done"
  /\ clock' = now
  /\ UNCHANGED <<now, files, found, existingEmbeddings, toEmbed, embedded,
                 completed, batchStart, task, fetchLog, embedLog, uploadLog,
                 failedAt>>
  /\ UNCHANGED faults
  /\ UNCHANGED <<numFiles, driveTime>>
  /\ UNCHANGED pageVars
  /\ UNCHANGED libVars

UploadFail ==
  /\ pc = "upload"
  /\ Abort("upload")
  /\ UNCHANGED <<clock, now, files, found, existingEmbeddings, toEmbed, embedded,
                 completed, batchStart, task, fetchLog, embedLog, uploadLog>>
  /\ UNCHANGED faults
  /\ UNCHANGED remoteVars
  /\ UNCHANGED pageVars
  /\ UNCHANGED libVars

\* ------------------------------------------------------------ the chat page
\* a listed file whose record in embs carries another modifiedTime than the file
Stale(embs) ==
  \E id \in 1..numFiles :
     /\ MapGet(embs, id) # NoRecord
     /\ MapGet(embs, id).modifiedTime # driveTime[id]

\* the session carries an accessToken: loadEmbeddings runs and sends GET
PageOpen ==
  /\ pagePc = "closed"
  /\ NoPassRunning
  /\ pagePc' = "get"
  /\ pc' = "idle"
  /\ now' = clock
  /\ FreshLocals
  /\ UNCHANGED <<pageEmbeddings, pageLoaded, pagePosted, pageStale>>
  /\ UNCHANGED <<faults, clock>>
  /\ UNCHANGED remoteVars
  /\ UNCHANGED libVars

\* GET answered 404, or 200 with no embeddings: the page sends POST
PageGetEmpty ==
  /\ pagePc = "get"
  /\ \/ remoteSnapshots = <<>>
     \/ \E s \in 1..Len(remoteSnapshots) : Len(remoteSnapshots[s].embeddings) = 0
  /\ BeginPass
  /\ pagePc' = "stream"
  /\ pagePosted' = TRUE
  /\ UNCHANGED <<pageEmbeddings, pageLoaded, pageStale>>
  /\ UNCHANGED libVars

\* GET answered 200 with embeddings: the page keeps them and returns
PageGetLoaded ==
  /\ pagePc = "get"
  /\ \E s \in 1..Len(remoteSnapshots) :
        /\ Len(remoteSnapshots[s].embeddings) > 0
        /\ pageEmbeddings' = remoteSnapshots[s].embeddings
        /\ pageStale' = Stale(remoteSnapshots[s].embeddings)
  /\ pageLoaded' = TRUE
  /\ pagePc' = "ready"
  /\ UNCHANGED pagePosted
  /\ UNCHANGED faults
  /\ UNCHANGED remoteVars
  /\ UNCHANGED passVars
  /\ UNCHANGED libVars

\* GET answered 401 or another error status
PageGetFail ==
  /\ pagePc = "get"
  /\ pagePc' = "error"
  /\ UNCHANGED <<pageEmbeddings, pageLoaded, pagePosted, pageStale>>
  /\ UNCHANGED faults
  /\ UNCHANGED remoteVars
  /\ UNCHANGED passVars
  /\ UNCHANGED libVars

\* index of the first event the page's reader returns on: error or complete
FirstReturn(evs) ==
  LET idx == {k \in 1..Len(evs) : evs[k].type \in {"error", "complete"}}
  IN IF idx = {} THEN 0 ELSE CHOOSE k \in idx : \A j \in idx : k <= j

\* the page has read the stream of the pass it started
PageStream ==
  /\ pagePc = "stream"
  /\ closed
  /\ LET r == FirstReturn(events)
     IN IF r > 0 /\ events[r].type = "complete"
        THEN \/ /\ \E s \in 1..Len(remoteSnapshots) :
                      pageEmbeddings' = remoteSnapshots[s].embeddings
                /\ pageLoaded' = TRUE
                /\ pagePc' = "ready"
             \/ /\ pagePc' = "ready"
                /\ UNCHANGED <<pageEmbeddings, pageLoaded>>
        ELSE /\ pagePc' = "error"
             /\ UNCHANGED <<pageEmbeddings, pageLoaded>>
  /\ UNCHANGED <<pagePosted, pageStale>>
  /\ UNCHANGED faults
  /\ UNCHANGED remoteVars
  /\ UNCHANGED passVars
  /\ UNCHANGED libVars

Next ==
  \/ \E id \in FileIds : Touch(id)
  \/ Trash
  \/ POST
  \/ ScanAllFilesOk
  \/ ScanAllFilesFail
  \/ SearchNotFound
  \/ SearchFound
  \/ SearchFail
  \/ DownloadOk
  \/ DownloadFail
  \/ \E k \in 1..(MaxFiles + 1) : FetchOk(k)
  \/ \E k \in 1..(MaxFiles + 1) : FetchBlank(k)
  \/ \E k \in 1..(MaxFiles + 1) : EmbedOk(k)
  \/ \E k \in 1..(MaxFiles + 1) : EmbedFail(k)
  \/ DelayDone
  \/ UploadOk
  \/ UploadFail
  \/ PageOpen
  \/ PageGetEmpty
  \/ PageGetLoaded
  \/ PageGetFail
  \/ PageStream

Spec == Init /\ [][Next]_vars

\* ------------------------------------------- generateEmbeddingsBatch (library)
\* strings are sequences of one-character strings
IsBlankChar(c) == c = " "

\* String.prototype.trim
RECURSIVE TrimStart(_)
TrimStart(str) ==
  IF str # <<>> /\ IsBlankChar(Head(str)) THEN TrimStart(Tail(str)) ELSE str
RECURSIVE TrimEnd(_)
TrimEnd(str) ==
  IF str # <<>> /\ IsBlankChar(str[Len(str)])
  THEN TrimEnd(SubSeq(str, 1, Len(str) - 1)) ELSE str
Trim(str) == TrimEnd(TrimStart(str))

\* content.replace(/<[^>]*>/g, ''): a "<" with a ">" after it is removed up to
\* the first such ">"
RECURSIVE StripTags(_)
StripTags(str) ==
  IF str = <<>> THEN <<>>
  ELSE LET close == {j \in 2..Len(str) : str[j] = ">"}
       IN IF Head(str) = "<" /\ close # {}
          THEN StripTags(SubSeq(str, (CHOOSE j \in close : \A h \in close : j <= h) + 1,
                                Len(str)))
          ELSE <<Head(str)>> \o StripTags(Tail(str))

\* .replace(/\s+/g, ' '): every run of white space becomes one blank
RECURSIVE CollapseWs(_)
CollapseWs(str) ==
  IF Len(str) < 2 THEN str
  ELSE IF IsBlankChar(str[1]) /\ IsBlankChar(str[2]) THEN CollapseWs(Tail(str))
       ELSE <<Head(str)>> \o CollapseWs(Tail(str))

\* mutant: only the empty string counts as blank (no trim)
IsBlankText_EmptyOnly(str) == str = <<>>
\* !text || text.trim().length === 0
IsBlankText(str) == Trim(str) = <<>>

\* extractTextContent, for a plain text type, a markup type and a type of the
\* default branch; content <<>> stands for undefined and for ''
ExtractTextContent(file) ==
  IF file.content = <<>> THEN <<>>
  ELSE CASE file.mimeType = "text/plain" -> file.content
         [] file.mimeType = "text/html" -> Trim(CollapseWs(StripTags(file.content)))
         [] OTHER -> <<>>

\* the ways the openai.embeddings.create call of generateEmbedding can end
ModelResults == {"ok", "reject", "noData"}

\* the message of the Error generateEmbedding throws
EmbeddingError(res) ==
  IF res = "noData" THEN "Failed to generate embedding: No embedding returned from OpenAI"
  ELSE "Failed to generate embedding: API Error"

NoError == ""

\* the EmbeddingGenerationProgress objects handed to onProgress
ProcessingNote(i, file) ==
  [current |-> i + 1, total |-> Len(batchFiles), currentFile |-> file.name,
   status |-> "processing", error |-> NoError]
\* mutant: the error notification carries the 0-based loop index
ErrorNote_ZeroBased(i, file, msg) ==
  [current |-> i, total |-> Len(batchFiles), currentFile |-> file.name,
   status |-> "error", error |-> msg]
ErrorNote(i, file, msg) ==
  [current |-> i + 1, total |-> Len(batchFiles), currentFile |-> file.name,
   status |-> "error", error |-> msg]
\* files[files.length - 1]?.name ?? ''
LastFileName(fs) == IF fs = <<>> THEN <<>> ELSE fs[Len(fs)].name
\* mutant: the final notification names no file
CompleteNote_NoName(fs) ==
  [current |-> Len(fs), total |-> Len(fs), currentFile |-> <<>>,
   status |-> "complete", error |-> NoError]
CompleteNote(fs) ==
  [current |-> Len(fs), total |-> Len(fs), currentFile |-> LastFileName(fs),
   status |-> "complete", error |-> NoError]

\* the Embedding pushed for a file whose embedding call resolved
BatchEmbedding(file, text) ==
  [fileId |-> file.id, fileName |-> file.name, content |-> text,
   mimeType |-> file.mimeType]

\* the inputs: contents and types that meet every branch of extractTextContent
ContentSamples == {<<>>, <<" ">>, <<"<", "b", ">">>, <<"a", " ", "<", "b", ">">>}
MimeSamples == {"text/plain", "text/html", "image/png"}
BatchInputs ==
  UNION {[1..n -> ContentSamples \X MimeSamples] : n \in 0..MaxBatchLen}
InputFile(p, kind) ==
  [id |-> p, name |-> <<"doc", p>>, content |-> kind[1], mimeType |-> kind[2]]

\* the state in which the synchronisation and the page are not followed
SyncIdle ==
  /\ numFiles = 0
  /\ driveTime = [id \in FileIds |-> "T1"]
  /\ remoteSnapshots = <<>>
  /\ lastFailed = {}
  /\ pc = "idle"
  /\ clock = 0
  /\ now = 0
  /\ files = <<>>
  /\ found = NoId
  /\ existingEmbeddings = <<>>
  /\ toEmbed = <<>>
  /\ embedded = <<>>
  /\ completed = 0
  /\ batchStart = 0
  /\ task = <<>>
  /\ events = <<>>
  /\ closed = FALSE
  /\ fetchLog = {}
  /\ embedLog = {}
  /\ uploadLog = <<>>
  /\ failedAt = "none"
  /\ faults = 0
  /\ pagePc = "closed"
  /\ pageEmbeddings = <<>>
  /\ pageLoaded = FALSE
  /\ pagePosted = FALSE
  /\ pageStale = FALSE

\* generateEmbeddingsBatch(files, onProgress) is called
InitBatch ==
  /\ SyncIdle
  /\ SearchIdle
  /\ ClientIdle
  /\ ChatIdle
  /\ StreamIdle
  /\ VectorIdle
  /\ ExtIdle
  /\ \E inp \in BatchInputs :
        batchFiles = [p \in 1..Len(inp) |-> InputFile(p, inp[p])]
  /\ batchPc = "loop"
  /\ batchI = 0
  /\ textContent = <<>>
  /\ embeddings = <<>>
  /\ progress = <<>>
  /\ modelCalls = <<>>

\* i++ and back to the loop test
NextFile ==
  /\ batchI' = batchI + 1
  /\ batchPc' = "loop"
  /\ textContent' = <<>>

\* the loop body up to its first await: the processing notification, then
\* extractTextContent(file) is called
FileStart ==
  /\ batchPc = "loop"
  /\ batchI < Len(batchFiles)
  /\ progress' = Append(progress, ProcessingNote(batchI, batchFiles[batchI + 1]))
  /\ batchPc' = "extract"
  /\ UNCHANGED <<batchFiles, batchI, textContent, embeddings, modelCalls>>
  /\ UNCHANGED <<remoteVars, passVars, faults, pageVars, extVars, searchVars, clientVars, chatVars, streamVars, vectorVars>>

\* extractTextContent resolved with blank text: continue
SkipBlank ==
  /\ batchPc = "extract"
  /\ IsBlankText(ExtractTextContent(batchFiles[batchI + 1]))
  /\ NextFile
  /\ UNCHANGED <<batchFiles, embeddings, progress, modelCalls>>
  /\ UNCHANGED <<remoteVars, passVars, faults, pageVars, extVars, searchVars, clientVars, chatVars, streamVars, vectorVars>>

\* extractTextContent resolved with text: generateEmbedding(textContent) calls
\* the embedding model
CallModel ==
  /\ batchPc = "extract"
  /\ ~IsBlankText(ExtractTextContent(batchFiles[batchI + 1]))
  /\ textContent' = ExtractTextContent(batchFiles[batchI + 1])
  /\ modelCalls' = Append(modelCalls, [file |-> batchI + 1, result |-> "pending"])
  /\ batchPc' = "embedding"
  /\ UNCHANGED <<batchFiles, batchI, embeddings, progress>>
  /\ UNCHANGED <<remoteVars, passVars, faults, pageVars, extVars, searchVars, clientVars, chatVars, streamVars, vectorVars>>

\* generateEmbedding resolved: the Embedding is pushed
EmbeddingResolved ==
  /\ batchPc = "embedding"
  /\ modelCalls' = [modelCalls EXCEPT ![Len(modelCalls)].result = "ok"]
  /\ embeddings' = Append(embeddings,
                          BatchEmbedding(batchFiles[batchI + 1], textContent))
  /\ NextFile
  /\ UNCHANGED <<batchFiles, progress>>
  /\ UNCHANGED <<remoteVars, passVars, faults, pageVars, extVars, searchVars, clientVars, chatVars, streamVars, vectorVars>>

\* generateEmbedding threw: the catch reports the error and the loop goes on
EmbeddingRejected ==
  /\ batchPc = "embedding"
  /\ \E res \in ModelResults \ {"ok"} :
        /\ modelCalls' = [modelCalls EXCEPT ![Len(modelCalls)].result = res]
        /\ progress' = Append(progress,
                              ErrorNote(batchI, batchFiles[batchI + 1],
                                        EmbeddingError(res)))
  /\ NextFile
  /\ UNCHANGED <<batchFiles, embeddings>>
  /\ UNCHANGED <<remoteVars, passVars, faults, pageVars, extVars, searchVars, clientVars, chatVars, streamVars, vectorVars>>

\* the loop is over: the complete notification, then return embeddings
BatchReturn ==
  /\ batchPc = "loop"
  /\ batchI >= Len(batchFiles)
  /\ progress' = Append(progress, CompleteNote(batchFiles))
  /\ batchPc' = "returned"
  /\ UNCHANGED <<batchFiles, batchI, textContent, embeddings, modelCalls>>
  /\ UNCHANGED <<remoteVars, passVars, faults, pageVars, extVars, searchVars, clientVars, chatVars, streamVars, vectorVars>>

NextBatch ==
  \/ FileStart
  \/ SkipBlank
  \/ CallModel
  \/ EmbeddingResolved
  \/ EmbeddingRejected
  \/ BatchReturn

SpecBatch == InitBatch /\ [][NextBatch]_vars

\* ------------------------------------------- performSimilaritySearch (library)
\* vectorA.reduce((sum, a, i) => sum + a * (vectorB[i] ?? 0), 0)
RECURSIVE DotProduct(_, _, _)
DotProduct(a, b, i) ==
  IF i > Len(a) THEN 0
  ELSE a[i] * (IF i <= Len(b) THEN b[i] ELSE 0) + DotProduct(a, b, i + 1)

\* Math.sqrt, on the perfect squares the sample vectors yield
Sqrt(n) == CHOOSE r \in 0..n : r * r = n

Magnitude(v) == Sqrt(DotProduct(v, v, 1))

\* mutant: a zero vector is scored 0 instead of being refused
CosineSimilarity_ZeroScoresZero(vectorA, vectorB) ==
  IF Len(vectorA) # Len(vectorB)
  THEN [threw |-> TRUE, value |-> 0, error |-> "Vectors must have the same length"]
  ELSE IF Magnitude(vectorA) = 0 \/ Magnitude(vectorB) = 0
       THEN [threw |-> FALSE, value |-> 0, error |-> ""]
       ELSE [threw |-> FALSE,
             value |-> (DotProduct(vectorA, vectorB, 1) * 100)
                          \div (Magnitude(vectorA) * Magnitude(vectorB)),
             error |-> ""]

\* cosineSimilarity: the value in hundredths (exact for the sample vectors, whose
\* magnitudes are whole numbers), or the Error thrown
CosineSimilarity(vectorA, vectorB) ==
  IF Len(vectorA) # Len(vectorB)
  THEN [threw |-> TRUE, value |-> 0, error |-> "Vectors must have the same length"]
  ELSE IF Magnitude(vectorA) = 0 \/ Magnitude(vectorB) = 0
       THEN [threw |-> TRUE, value |-> 0,
             error |-> "Cannot compute similarity with zero vector"]
       ELSE [threw |-> FALSE,
             value |-> (DotProduct(vectorA, vectorB, 1) * 100)
                          \div (Magnitude(vectorA) * Magnitude(vectorB)),
             error |-> ""]

\* mutant: the band bounds are exclusive
GetRelevanceLevel_Exclusive(similarity) ==
  IF similarity > 80 THEN "high"
  ELSE IF similarity > 60 THEN "medium" ELSE "low"

\* getRelevanceLevel, on hundredths
GetRelevanceLevel(similarity) ==
  IF similarity >= 80 THEN "high"
  ELSE IF similarity >= 60 THEN "medium" ELSE "low"

EmbeddingMatch(embedding, similarity) ==
  [embedding |-> embedding, similarity |-> similarity,
   relevance |-> GetRelevanceLevel(similarity)]

\* mutant: a record whose similarity cannot be computed is scored 0
Similarities_ZeroForInvalid(embs, q) ==
  [k \in 1..Len(embs) |->
     EmbeddingMatch(embs[k], CosineSimilarity(q.queryVector, embs[k].vector).value)]

\* embeddings.map(try cosineSimilarity catch null).filter(match !== null)
Similarities(embs, q) ==
  LET scored == SelectSeq(embs,
                  LAMBDA e : ~CosineSimilarity(q.queryVector, e.vector).threw)
  IN [k \in 1..Len(scored) |->
        EmbeddingMatch(scored[k],
                       CosineSimilarity(q.queryVector, scored[k].vector).value)]

\* query.similarityThreshold ?? 0
Threshold(q) ==
  IF q.similarityThreshold = Undefined THEN 0 ELSE q.similarityThreshold

\* mutant: the threshold itself is excluded
FilterByThreshold_Strict(ms, q) ==
  SelectSeq(ms, LAMBDA m : m.similarity > Threshold(q))

\* similarities.filter(match => match.similarity >= threshold)
FilterByThreshold(ms, q) ==
  SelectSeq(ms, LAMBDA m : m.similarity >= Threshold(q))

\* mutant: an element is placed before the sorted elements of equal similarity
InsertSorted_Unstable(sorted, m) ==
  LET before == SelectSeq(sorted, LAMBDA x : x.similarity > m.similarity)
      after == SelectSeq(sorted, LAMBDA x : x.similarity <= m.similarity)
  IN before \o <<m>> \o after

\* one insertion of the stable sort: m goes behind every element the comparator
\* (a, b) => b.similarity - a.similarity does not order after it
InsertSorted(sorted, m) ==
  LET before == SelectSeq(sorted, LAMBDA x : x.similarity >= m.similarity)
      after == SelectSeq(sorted, LAMBDA x : x.similarity < m.similarity)
  IN before \o <<m>> \o after

\* filteredMatches.sort((a, b) => b.similarity - a.similarity); Array.prototype.sort
\* is stable on the engines the package admits (node >= 18)
RECURSIVE SortBySimilarity(_)
SortBySimilarity(ms) ==
  IF ms = <<>> THEN <<>>
  ELSE InsertSorted(SortBySimilarity(SubSeq(ms, 1, Len(ms) - 1)), ms[Len(ms)])

\* mutant: one match more than the limit is returned
ApplyLimit_OneMore(ms, q) ==
  IF q.limit = Undefined THEN ms ELSE SubSeq(ms, 1, Min(q.limit + 1, Len(ms)))

\* filteredMatches.slice(0, query.limit ?? filteredMatches.length)
ApplyLimit(ms, q) ==
  IF q.limit = Undefined THEN ms ELSE SubSeq(ms, 1, Min(q.limit, Len(ms)))

\* performSimilaritySearch as a function of its arguments (searchTime left out)
PerformSimilaritySearch(embs, q) ==
  IF Len(embs) = 0 THEN [matches |-> <<>>, totalMatches |-> 0]
  ELSE LET filteredMatches ==
             SortBySimilarity(FilterByThreshold(Similarities(embs, q), q))
       IN [matches |-> ApplyLimit(filteredMatches, q),
           totalMatches |-> Len(filteredMatches)]

\* the inputs: vectors of magnitude 1 and 5, the zero vector and a vector of
\* another length; thresholds in hundredths
VectorSamples ==
  {<<1, 0>>, <<3, 4>>, <<4, 3>>, <<4, -3>>, <<-3, -4>>, <<0, 0>>, <<1>>}
QueryVectorSamples == {<<3, 4>>, <<1, 0>>, <<0, 0>>}
ThresholdSamples == {Undefined, -100, 60, 80, 100}
LimitSamples == {Undefined} \cup 0..MaxRecords
SearchInputs ==
  UNION {[1..n -> VectorSamples] : n \in 0..MaxRecords}

\* performSimilaritySearch(embeddings, query) is called
InitSearch ==
  /\ SyncIdle
  /\ BatchIdle
  /\ ClientIdle
  /\ ChatIdle
  /\ StreamIdle
  /\ VectorIdle
  /\ ExtIdle
  /\ \E inp \in SearchInputs :
        searchEmbeddings = [k \in 1..Len(inp) |-> [fileId |-> k, vector |-> inp[k]]]
  /\ \E qv \in QueryVectorSamples, lim \in LimitSamples, th \in ThresholdSamples :
        query = [queryVector |-> qv, limit |-> lim, similarityThreshold |-> th]
  /\ searchPc = "called"
  /\ searchResult = [matches |-> <<>>, totalMatches |-> 0]

\* embeddings.length === 0: the early return
SearchEmpty ==
  /\ searchPc = "called"
  /\ Len(searchEmbeddings) = 0
  /\ searchResult' = PerformSimilaritySearch(searchEmbeddings, query)
  /\ searchPc' = "returned"
  /\ UNCHANGED <<searchEmbeddings, query>>
  /\ UNCHANGED <<remoteVars, passVars, faults, pageVars, extVars, batchVars, clientVars, chatVars, streamVars, vectorVars>>

\* score, filter, sort, limit and return
SearchScored ==
  /\ searchPc = "called"
  /\ Len(searchEmbeddings) > 0
  /\ searchResult' = PerformSimilaritySearch(searchEmbeddings, query)
  /\ searchPc' = "returned"
  /\ UNCHANGED <<searchEmbeddings, query>>
  /\ UNCHANGED <<remoteVars, passVars, faults, pageVars, extVars, batchVars, clientVars, chatVars, streamVars, vectorVars>>

NextSearch ==
  \/ SearchEmpty
  \/ SearchScored

SpecSearch == InitSearch /\ [][NextSearch]_vars

\* ------------------------------------------------------------------- Drive client
\* The repository holds two copies of the Drive client, which differ in
\* downloadFileContent, downloadEmbeddingsFile and the scan filter; a call is
\* made on one of them.
ClientCopies == {"client.ts", "part_006"}

SUPPORTED_MIME_TYPES ==
  {"text/plain", "text/markdown", "text/csv",
   "application/vnd.google-apps.document",
   "application/vnd.google-apps.spreadsheet",
   "application/vnd.google-apps.presentation",
   "text/html", "application/pdf",
   "application/vnd.openxmlformats-officedocument.wordprocessingml.document",
   "application/vnd.openxmlformats-officedocument.spreadsheetml.sheet",
   "application/vnd.openxmlformats-officedocument.presentationml.presentation",
   "application/json", "text/javascript", "text/typescript",
   "application/javascript"}

\* a listed file that carries no mimeType
NoMime == ""

\* the k-th file of page p as files.list reports it
ListedFile(p, k, mime) == [id |-> <<p, k>>, mimeType |-> mime]

\* the MIME types of the files of one page of the listing
PageSamples ==
  {<<>>, <<"text/plain">>, <<"image/jpeg">>, <<"text/plain", "image/jpeg">>,
   <<"image/jpeg", "application/pdf">>, <<NoMime, "text/plain">>}

ScanInputs == UNION {[1..n -> PageSamples] : n \in 1..MaxPages}

PageFiles(p, mimes) == [k \in 1..Len(mimes) |-> ListedFile(p, k, mimes[k])]

\* the reply of files.list to a request with the given page token (0: none)
ListReply(pages, token) ==
  LET p == IF token = 0 THEN 1 ELSE token
  IN [files |-> PageFiles(p, pages[p]),
      nextPageToken |-> IF p < Len(pages) THEN p + 1 ELSE 0]

\* the filter of scanAllFiles
IsSupported_AnyMime(copy, file) == file.mimeType # NoMime

IsSupported(copy, file) ==
  /\ copy = "part_006" => file.id # <<>>
  /\ file.mimeType # NoMime
  /\ file.mimeType \in SUPPORTED_MIME_TYPES

SupportedFiles(copy, listed) == SelectSeq(listed, LAMBDA f : IsSupported(copy, f))

\* a request to the Drive API
DriveRequest(method, fileId, pageToken, mimeType, alt) ==
  [method |-> method, fileId |-> fileId, pageToken |-> pageToken,
   mimeType |-> mimeType, alt |-> alt]

ScanError == "Failed to scan Drive files"

Returns(v) == [threw |-> FALSE, error |-> "", value |-> v]
Throws(e) == [threw |-> TRUE, error |-> e, value |-> <<>>]

\* scanAllFiles: the request for the next page is sent
ScanList ==
  /\ clientPc = "scan"
  /\ driveLog' = Append(driveLog,
       DriveRequest("files.list", <<>>, clientLocals.nextPageToken, "", ""))
  /\ clientPc' = "scan-await"
  /\ UNCHANGED <<clientCall, clientLocals, clientResult>>
  /\ UNCHANGED <<remoteVars, passVars, faults, pageVars, extVars, batchVars, searchVars,
                 chatVars, streamVars, vectorVars>>

\* scanAllFiles: a page arrives; its supported files are kept, and the loop
\* goes on while the reply carries a continuation token
ScanPage ==
  /\ clientPc = "scan-await"
  /\ LET reply == ListReply(clientCall.pages, clientLocals.nextPageToken)
         allFiles == clientLocals.allFiles \o SupportedFiles(clientCall.copy, reply.files)
     IN /\ clientLocals' = [allFiles |-> allFiles, nextPageToken |-> reply.nextPageToken,
                             rejected |-> FALSE]
        /\ IF reply.nextPageToken # 0
             THEN /\ clientPc' = "scan"
                  /\ UNCHANGED clientResult
             ELSE /\ clientPc' = "returned"
                  /\ clientResult' = Returns(allFiles)
  /\ UNCHANGED <<clientCall, driveLog>>
  /\ UNCHANGED <<remoteVars, passVars, faults, pageVars, extVars, batchVars, searchVars,
                 chatVars, streamVars, vectorVars>>

\* what the catch block of scanAllFiles makes of a failure, allFiles being
\* the files of the pages fetched before it
ScanFailure_Partial(allFiles) == Returns(allFiles)

ScanFailure(allFiles) == Throws(ScanError)

\* scanAllFiles: the request for a page fails
ScanFails ==
  /\ clientPc = "scan-await"
  /\ clientPc' = "threw"
  /\ clientResult' = ScanFailure(clientLocals.allFiles)
  /\ clientLocals' = [clientLocals EXCEPT !.rejected = TRUE]
  /\ UNCHANGED <<clientCall, driveLog>>
  /\ UNCHANGED <<remoteVars, passVars, faults, pageVars, extVars, batchVars, searchVars,
                 chatVars, streamVars, vectorVars>>

\* ---- downloadFileContent
GoogleDoc == "application/vnd.google-apps.document"
GoogleSheet == "application/vnd.google-apps.spreadsheet"
GoogleSlides == "application/vnd.google-apps.presentation"

ContentMimeSamples == {GoogleDoc, GoogleSheet, GoogleSlides, "text/plain", "application/pdf"}

\* the MIME type the code asks for, "" for a regular file
ExportMimeType(mimeType) ==
  IF mimeType = GoogleDoc THEN "text/plain"
  ELSE IF mimeType = GoogleSheet THEN "text/csv"
  ELSE IF mimeType = GoogleSlides THEN "text/plain"
  ELSE ""

\* the request downloadFileContent sends for a file
ContentRequest(copy, file) ==
  IF ExportMimeType(file.mimeType) # ""
    THEN DriveRequest(IF copy = "client.ts" THEN "files.get" ELSE "files.export",
                      file.id, 0, ExportMimeType(file.mimeType), "")
    ELSE DriveRequest("files.get", file.id, 0, "", "media")

\* the body of a file, as characters
FileBody == <<"d">>

ContentSend ==
  /\ clientPc = "content"
  /\ driveLog' = Append(driveLog, ContentRequest(clientCall.copy, clientCall.file))
  /\ clientPc' = "content-await"
  /\ UNCHANGED <<clientCall, clientLocals, clientResult>>
  /\ UNCHANGED <<remoteVars, passVars, faults, pageVars, extVars, batchVars, searchVars,
                 chatVars, streamVars, vectorVars>>

ContentArrives ==
  /\ clientPc = "content-await"
  /\ clientPc' = "returned"
  /\ clientResult' = Returns(FileBody)
  /\ UNCHANGED <<clientCall, clientLocals, driveLog>>
  /\ UNCHANGED <<remoteVars, passVars, faults, pageVars, extVars, batchVars, searchVars,
                 chatVars, streamVars, vectorVars>>

\* what the catch block of downloadFileContent does with a failure
ContentFailure_Rethrow == Throws("Failed to download file")

ContentFailure == Returns(<<>>)

ContentFails ==
  /\ clientPc = "content-await"
  /\ clientPc' = "returned"
  /\ clientResult' = ContentFailure
  /\ clientLocals' = [clientLocals EXCEPT !.rejected = TRUE]
  /\ UNCHANGED <<clientCall, driveLog>>
  /\ UNCHANGED <<remoteVars, passVars, faults, pageVars, extVars, batchVars, searchVars,
                 chatVars, streamVars, vectorVars>>

\* ---- downloadEmbeddingsFile
\* The body of the snapshot file: whether it parses as JSON and to what, and,
\* for an object, which fields of EmbeddingsFile it holds.
Payload(syntax, emb, version, generatedAt, totalFiles, metadata) ==
  [syntax |-> syntax, embeddings |-> emb, version |-> version,
   generatedAt |-> generatedAt, totalFiles |-> totalFiles, metadata |-> metadata]

ObjectPayloads ==
  {Payload("object", e, v, g, t, m) :
     e \in {"absent", "array", "object"}, v \in {"absent", "set"},
     g \in {"absent", "set"}, t \in {"absent", "number", "string"},
     m \in {"absent", "ok", "noModel", "noDimension"}}

BarePayload(syntax) == Payload(syntax, "absent", "absent", "absent", "absent", "absent")

\* the type of response.data and the body it stands for
SnapshotReplies ==
  {<<"string", p>> : p \in ObjectPayloads \cup {BarePayload("unparseable"), BarePayload("null")}}
    \cup {<<"object", p>> : p \in ObjectPayloads \cup {BarePayload("null")}}
    \cup {<<"undefined", BarePayload("none")>>}

FormatError == "Invalid embeddings file format"
DownloadError == "Failed to download embeddings file"

\* the checks of part_006 on the parsed value
IsEmbeddingsFile(p) ==
  /\ p.syntax = "object"
  /\ p.embeddings = "array"
  /\ p.version = "set" /\ p.generatedAt = "set" /\ p.totalFiles = "number"
  /\ p.metadata = "ok"

\* what downloadEmbeddingsFile makes of response.data
ParseSnapshot(copy, dataType, p) ==
  IF copy = "client.ts"
    THEN \* JSON.parse(response.data), the value returned as it is
         IF dataType = "string"
           THEN IF p.syntax = "unparseable" THEN Throws(FormatError) ELSE Returns(<<p>>)
         ELSE IF dataType = "object" /\ p.syntax = "null" THEN Returns(<<p>>)
         ELSE Throws(FormatError)
    ELSE IF dataType \notin {"string", "object"} THEN Throws(FormatError)
         ELSE IF p.syntax = "unparseable" THEN Throws(FormatError)
         ELSE IF IsEmbeddingsFile(p) THEN Returns(<<p>>)
         ELSE Throws(FormatError)

SnapshotSend ==
  /\ clientPc = "snapshot"
  /\ driveLog' = Append(driveLog, DriveRequest("files.get", <<1, 1>>, 0, "", "media"))
  /\ clientPc' = "snapshot-await"
  /\ UNCHANGED <<clientCall, clientLocals, clientResult>>
  /\ UNCHANGED <<remoteVars, passVars, faults, pageVars, extVars, batchVars, searchVars,
                 chatVars, streamVars, vectorVars>>

SnapshotArrives ==
  /\ clientPc = "snapshot-await"
  /\ clientResult' = ParseSnapshot(clientCall.copy, clientCall.dataType, clientCall.payload)
  /\ clientPc' = IF clientResult'.threw THEN "threw" ELSE "returned"
  /\ UNCHANGED <<clientCall, clientLocals, driveLog>>
  /\ UNCHANGED <<remoteVars, passVars, faults, pageVars, extVars, batchVars, searchVars,
                 chatVars, streamVars, vectorVars>>

SnapshotFails ==
  /\ clientPc = "snapshot-await"
  /\ clientPc' = "threw"
  /\ clientResult' = Throws(DownloadError)
  /\ clientLocals' = [clientLocals EXCEPT !.rejected = TRUE]
  /\ UNCHANGED <<clientCall, driveLog>>
  /\ UNCHANGED <<remoteVars, passVars, faults, pageVars, extVars, batchVars, searchVars,
                 chatVars, streamVars, vectorVars>>

ClientCall(copy, fn, pages, file, payload, dataType) ==
  [copy |-> copy, fn |-> fn, pages |-> pages, file |-> file, payload |-> payload,
   dataType |-> dataType]

ClientCalls ==
  {ClientCall(c, "scanAllFiles", p, NoFile, NoPayload, "") :
     c \in ClientCopies, p \in ScanInputs}
  \cup {ClientCall(c, "downloadFileContent", <<>>, ListedFile(1, 1, m), NoPayload, "") :
     c \in ClientCopies, m \in ContentMimeSamples}
  \cup {ClientCall(c, "downloadEmbeddingsFile", <<>>, NoFile, r[2], r[1]) :
     c \in ClientCopies, r \in SnapshotReplies}

InitClient ==
  /\ SyncIdle
  /\ BatchIdle
  /\ SearchIdle
  /\ ChatIdle
  /\ StreamIdle
  /\ VectorIdle
  /\ ExtIdle
  /\ clientCall \in ClientCalls
  /\ clientPc = (CASE clientCall.fn = "scanAllFiles" -> "scan"
                   [] clientCall.fn = "downloadFileContent" -> "content"
                   [] OTHER -> "snapshot")
  /\ clientLocals = NoLocals
  /\ driveLog = <<>>
  /\ clientResult = NoResult

NextClient ==
  \/ ScanList
  \/ ScanPage
  \/ ScanFails
  \/ ContentSend
  \/ ContentArrives
  \/ ContentFails
  \/ SnapshotSend
  \/ SnapshotArrives
  \/ SnapshotFails

SpecClient == InitClient /\ [][NextClient]_vars

\* -------------------------------------------------------------- chat route (POST)
CHAT_LIMIT == 5
\* similarityThreshold: 0.5, in hundredths
CHAT_THRESHOLD == 50

NoLink == ""

\* the vector generateEmbedding returns for the question, and records whose
\* similarity to it is 1, exactly 0.5 and 0, with and without a webViewLink
QuestionVector == <<1, 1, 1, 1>>
RecordKinds ==
  {[vector |-> <<1, 1, 1, 1>>, webViewLink |-> "link"],
   [vector |-> <<1, 0, 0, 0>>, webViewLink |-> NoLink],
   [vector |-> <<1, 1, -1, -1>>, webViewLink |-> "link"]}

ChatRecord(k, kind) ==
  [fileId |-> k, fileName |-> <<"name", k>>, content |-> <<"text", k>>,
   webViewLink |-> kind.webViewLink, vector |-> kind.vector]

\* the embeddings of the snapshot file the chat route downloads
ChatSnapshots ==
  UNION {{[k \in 1..n |-> ChatRecord(k, kinds[k])] : kinds \in [1..n -> RecordKinds]} :
           n \in 0..MaxChatRecords}

\* the questions: none, a blank one, one with text
QuestionSamples == {<<>>, <<" ">>, <<"q">>}

\* mutant: the query carries neither limit nor threshold
ChatQuery_Unbounded(vector) ==
  [queryVector |-> vector, limit |-> Undefined, similarityThreshold |-> Undefined]

\* the VectorSearchQuery of the route
ChatQuery(vector) ==
  [queryVector |-> vector, limit |-> CHAT_LIMIT, similarityThreshold |-> CHAT_THRESHOLD]

\* `File: ${fileName}\nContent: ${content}`
ContextDoc(match) ==
  <<"File: ", match.embedding.fileName, "\nContent: ", match.embedding.content>>

\* { fileId, fileName, ...(webViewLink ? { webViewLink } : {}) }
Citation(match) ==
  IF match.embedding.webViewLink # NoLink
    THEN [fileId |-> match.embedding.fileId, fileName |-> match.embedding.fileName,
          webViewLink |-> match.embedding.webViewLink]
    ELSE [fileId |-> match.embedding.fileId, fileName |-> match.embedding.fileName]

JsonResponse(status, error) == [status |-> status, body |-> "json", error |-> error]
StreamResponse == [status |-> 200, body |-> "stream", error |-> ""]

\* mutant: the failure is answered with the token stream
ChatFailure_Stream(message) == StreamResponse

\* the outer catch of POST
ChatFailure(message) == JsonResponse(500, message)

\* POST is called
InitChat ==
  /\ SyncIdle
  /\ BatchIdle
  /\ SearchIdle
  /\ ClientIdle
  /\ StreamIdle
  /\ VectorIdle
  /\ ExtIdle
  /\ chatRequest \in [auth : BOOLEAN, question : QuestionSamples]
  /\ chatPc = "start"
  /\ chatLocals = NoChatLocals
  /\ chatCalls = <<>>
  /\ chatResponse = NoResponse

\* the handler returns a response
Respond(response) ==
  /\ chatResponse' = response
  /\ chatPc' = "responded"

ChatUnchanged ==
  UNCHANGED <<remoteVars, passVars, faults, pageVars, extVars, batchVars, searchVars,
              clientVars, streamVars, vectorVars>>

\* no Bearer token in the authorization header
ChatUnauthorized ==
  /\ chatPc = "start"
  /\ ~chatRequest.auth
  /\ Respond(JsonResponse(401, "Missing access token"))
  /\ UNCHANGED <<chatRequest, chatLocals, chatCalls>>
  /\ ChatUnchanged

\* req.json() rejects
ChatBodyFails ==
  /\ chatPc = "start"
  /\ chatRequest.auth
  /\ Respond(ChatFailure("Failed to process chat request"))
  /\ UNCHANGED <<chatRequest, chatLocals, chatCalls>>
  /\ ChatUnchanged

\* the body carries no question
ChatNoQuestion ==
  /\ chatPc = "start"
  /\ chatRequest.auth
  /\ chatRequest.question = <<>>
  /\ Respond(JsonResponse(400, "Missing question"))
  /\ UNCHANGED <<chatRequest, chatLocals, chatCalls>>
  /\ ChatUnchanged

\* searchEmbeddingsFile is called
ChatSearch ==
  /\ chatPc = "start"
  /\ chatRequest.auth
  /\ chatRequest.question # <<>>
  /\ chatCalls' = Append(chatCalls, "searchEmbeddingsFile")
  /\ chatPc' = "search"
  /\ UNCHANGED <<chatRequest, chatLocals, chatResponse>>
  /\ ChatUnchanged

ChatSearchFails ==
  /\ chatPc = "search"
  /\ Respond(ChatFailure("Failed to search for embeddings file"))
  /\ UNCHANGED <<chatRequest, chatLocals, chatCalls>>
  /\ ChatUnchanged

\* searchEmbeddingsFile returns null
ChatNoSnapshot ==
  /\ chatPc = "search"
  /\ Respond(JsonResponse(404, "No embeddings found. Please wait for indexing to complete."))
  /\ UNCHANGED <<chatRequest, chatLocals, chatCalls>>
  /\ ChatUnchanged

\* a snapshot file is found: downloadEmbeddingsFile is called
ChatFound ==
  /\ chatPc = "search"
  /\ chatCalls' = Append(chatCalls, "downloadEmbeddingsFile")
  /\ chatPc' = "download"
  /\ UNCHANGED <<chatRequest, chatLocals, chatResponse>>
  /\ ChatUnchanged

ChatDownloadFails ==
  /\ chatPc = "download"
  /\ Respond(ChatFailure(DownloadError))
  /\ UNCHANGED <<chatRequest, chatLocals, chatCalls>>
  /\ ChatUnchanged

\* the snapshot arrives: generateEmbedding(question) is called
ChatDownloaded ==
  /\ chatPc = "download"
  /\ \E embs \in ChatSnapshots :
       chatLocals' = [chatLocals EXCEPT !.embeddings = embs]
  /\ chatCalls' = Append(chatCalls, "generateEmbedding")
  /\ chatPc' = "embed"
  /\ UNCHANGED <<chatRequest, chatResponse>>
  /\ ChatUnchanged

\* generateEmbedding throws on a blank text before it calls the model
ChatQuestionBlank ==
  /\ chatPc = "embed"
  /\ IsBlankText(chatRequest.question)
  /\ chatLocals' = [chatLocals EXCEPT !.embedding = "blank"]
  /\ Respond(ChatFailure("Text content cannot be empty"))
  /\ UNCHANGED <<chatRequest, chatCalls>>
  /\ ChatUnchanged

\* the embedding model rejects the call or returns no data
ChatEmbeddingFails ==
  /\ chatPc = "embed"
  /\ ~IsBlankText(chatRequest.question)
  /\ \E res \in ModelResults \ {"ok"} :
       /\ chatLocals' = [chatLocals EXCEPT !.embedding = res]
       /\ Respond(ChatFailure(EmbeddingError(res)))
  /\ UNCHANGED <<chatRequest, chatCalls>>
  /\ ChatUnchanged

\* the question is embedded: performSimilaritySearch is called
ChatEmbedded ==
  /\ chatPc = "embed"
  /\ ~IsBlankText(chatRequest.question)
  /\ chatLocals' = [chatLocals EXCEPT !.embedding = "ok"]
  /\ chatCalls' = Append(chatCalls, "performSimilaritySearch")
  /\ chatPc' = "retrieve"
  /\ UNCHANGED <<chatRequest, chatResponse>>
  /\ ChatUnchanged

\* the matches arrive: contextDocs and citations are built, the ReadableStream
\* is constructed, whose start() calls streamChatCompletion, and the Response is
\* returned
ChatRetrieved ==
  /\ chatPc = "retrieve"
  /\ LET matches == PerformSimilaritySearch(chatLocals.embeddings,
                                            ChatQuery(QuestionVector)).matches
     IN chatLocals' = [chatLocals EXCEPT
                         !.matches = matches,
                         !.contextDocs = [i \in 1..Len(matches) |-> ContextDoc(matches[i])],
                         !.citations = [i \in 1..Len(matches) |-> Citation(matches[i])]]
  /\ chatCalls' = Append(chatCalls, "streamChatCompletion")
  /\ chatResponse' = StreamResponse
  /\ chatPc' = "streaming"
  /\ UNCHANGED chatRequest
  /\ ChatUnchanged

NextChat ==
  \/ ChatUnauthorized
  \/ ChatBodyFails
  \/ ChatNoQuestion
  \/ ChatSearch
  \/ ChatSearchFails
  \/ ChatNoSnapshot
  \/ ChatFound
  \/ ChatDownloadFails
  \/ ChatDownloaded
  \/ ChatQuestionBlank
  \/ ChatEmbeddingFails
  \/ ChatEmbedded
  \/ ChatRetrieved

SpecChat == InitChat /\ [][NextChat]_vars

\* ------------------------------------------------ streamChatCompletion (library)
\* The model stream yields chunks, each with a token or with none (""); create
\* may reject; the iterator may throw after any number of chunks; a callback
\* returns or raises, and onDone and onError may be left out.
TokenSamples == {"", "t"}
CallbackBehaviours == {"returns", "raises"}
OptionalCallbackBehaviours == {"absent", "returns", "raises"}

ChunkInputs == UNION {[1..n -> TokenSamples] : n \in 0..MaxChunks}

StreamCalls ==
  {[chunks |-> c, createFails |-> f, breaksAfter |-> b, onToken |-> t,
    onDone |-> d, onError |-> e] :
     c \in ChunkInputs, f \in BOOLEAN, b \in {Undefined} \cup 0..MaxChunks,
     t \in CallbackBehaviours, d \in OptionalCallbackBehaviours,
     e \in OptionalCallbackBehaviours}

Invocation(cb, arg) == [cb |-> cb, arg |-> arg]

\* streamChatCompletion(options) is called
InitStream ==
  /\ SyncIdle
  /\ BatchIdle
  /\ SearchIdle
  /\ ClientIdle
  /\ ChatIdle
  /\ VectorIdle
  /\ ExtIdle
  /\ streamCall \in {c \in StreamCalls :
                       c.breaksAfter = Undefined \/ c.breaksAfter <= Len(c.chunks)}
  /\ streamPc = "create"
  /\ streamPos = 0
  /\ callbackLog = <<>>

\* openai.chat.completions.create resolves with the stream
StreamCreated ==
  /\ streamPc = "create"
  /\ ~streamCall.createFails
  /\ streamPc' = "iterate"
  /\ UNCHANGED <<streamCall, streamPos, callbackLog>>
  /\ UNCHANGED <<remoteVars, passVars, faults, pageVars, extVars, batchVars, searchVars,
                 clientVars, chatVars, vectorVars>>

\* openai.chat.completions.create rejects: the catch block is entered
StreamCreateFails ==
  /\ streamPc = "create"
  /\ streamCall.createFails
  /\ streamPc' = "catch"
  /\ UNCHANGED <<streamCall, streamPos, callbackLog>>
  /\ UNCHANGED <<remoteVars, passVars, faults, pageVars, extVars, batchVars, searchVars,
                 clientVars, chatVars, vectorVars>>

\* one turn of the for await loop: onToken is called for a chunk with a token
StreamChunk ==
  /\ streamPc = "iterate"
  /\ streamPos < Len(streamCall.chunks)
  /\ streamCall.breaksAfter # streamPos
  /\ streamPos' = streamPos + 1
  /\ LET token == streamCall.chunks[streamPos + 1]
     IN IF token # ""
          THEN /\ callbackLog' = Append(callbackLog, Invocation("onToken", token))
               /\ streamPc' = IF streamCall.onToken = "raises" THEN "catch" ELSE "iterate"
          ELSE UNCHANGED <<callbackLog, streamPc>>
  /\ UNCHANGED streamCall
  /\ UNCHANGED <<remoteVars, passVars, faults, pageVars, extVars, batchVars, searchVars,
                 clientVars, chatVars, vectorVars>>

\* the iterator throws instead of yielding the next chunk
StreamBreaks ==
  /\ streamPc = "iterate"
  /\ streamCall.breaksAfter = streamPos
  /\ streamPc' = "catch"
  /\ UNCHANGED <<streamCall, streamPos, callbackLog>>
  /\ UNCHANGED <<remoteVars, passVars, faults, pageVars, extVars, batchVars, searchVars,
                 clientVars, chatVars, vectorVars>>

\* the stream is exhausted: onDone?.(), the last statement of the try block
StreamDone ==
  /\ streamPc = "iterate"
  /\ streamPos = Len(streamCall.chunks)
  /\ streamCall.breaksAfter # streamPos
  /\ IF streamCall.onDone = "absent"
       THEN /\ streamPc' = "resolved"
            /\ UNCHANGED callbackLog
       ELSE /\ callbackLog' = Append(callbackLog, Invocation("onDone", ""))
            /\ streamPc' = IF streamCall.onDone = "raises" THEN "catch" ELSE "resolved"
  /\ UNCHANGED <<streamCall, streamPos>>
  /\ UNCHANGED <<remoteVars, passVars, faults, pageVars, extVars, batchVars, searchVars,
                 clientVars, chatVars, vectorVars>>

\* catch (err) { onError?.(err) }
StreamCatch ==
  /\ streamPc = "catch"
  /\ IF streamCall.onError = "absent"
       THEN /\ streamPc' = "resolved"
            /\ UNCHANGED callbackLog
       ELSE /\ callbackLog' = Append(callbackLog, Invocation("onError", "err"))
            /\ streamPc' = IF streamCall.onError = "raises" THEN "rejected" ELSE "resolved"
  /\ UNCHANGED <<streamCall, streamPos>>
  /\ UNCHANGED <<remoteVars, passVars, faults, pageVars, extVars, batchVars, searchVars,
                 clientVars, chatVars, vectorVars>>

NextStream ==
  \/ StreamCreated
  \/ StreamCreateFails
  \/ StreamChunk
  \/ StreamBreaks
  \/ StreamDone
  \/ StreamCatch

SpecStream == InitStream /\ [][NextStream]_vars

\* ------------------------------------------ cosineSimilarity, normalizeVector
\* vectors of length 0 to 3, all-zero ones among them, whose magnitudes are
\* whole numbers
VectorArgSamples == VectorSamples \cup {<<>>, <<0>>, <<0, 0, 0>>, <<3, 4, 0>>}

\* normalizeVector: the components in hundredths, or the Error thrown
NormalizeVector(vector) ==
  IF Magnitude(vector) = 0
  THEN [threw |-> TRUE, value |-> <<>>, error |-> "Cannot normalize zero vector"]
  ELSE [threw |-> FALSE,
        value |-> [i \in 1..Len(vector) |-> (vector[i] * 100) \div Magnitude(vector)],
        error |-> ""]

\* what the caller gets: the Error, or the value returned
Outcome(r) ==
  [threw |-> r.threw, value |-> IF r.threw THEN <<>> ELSE <<r.value>>, error |-> r.error]

VectorCalls ==
  {[fn |-> "cosineSimilarity", a |-> a, b |-> b] :
     a \in VectorArgSamples, b \in VectorArgSamples}
  \cup {[fn |-> "normalizeVector", a |-> a, b |-> <<>>] : a \in VectorArgSamples}

InitVector ==
  /\ SyncIdle
  /\ BatchIdle
  /\ SearchIdle
  /\ ClientIdle
  /\ ChatIdle
  /\ StreamIdle
  /\ ExtIdle
  /\ vectorArgs \in VectorCalls
  /\ vectorPc = "called"
  /\ vectorResult = NoVectorResult

CosineSimilarityCall ==
  /\ vectorPc = "called"
  /\ vectorArgs.fn = "cosineSimilarity"
  /\ vectorResult' = Outcome(CosineSimilarity(vectorArgs.a, vectorArgs.b))
  /\ vectorPc' = "done"
  /\ UNCHANGED vectorArgs
  /\ UNCHANGED <<remoteVars, passVars, faults, pageVars, extVars, batchVars, searchVars,
                 clientVars, chatVars, streamVars>>

NormalizeVectorCall ==
  /\ vectorPc = "called"
  /\ vectorArgs.fn = "normalizeVector"
  /\ vectorResult' = Outcome(NormalizeVector(vectorArgs.a))
  /\ vectorPc' = "done"
  /\ UNCHANGED vectorArgs
  /\ UNCHANGED <<remoteVars, passVars, faults, pageVars, extVars, batchVars, searchVars,
                 clientVars, chatVars, streamVars>>

NextVector ==
  \/ CosineSimilarityCall
  \/ NormalizeVectorCall

SpecVector == InitVector /\ [][NextVector]_vars

\* ------------------------------------------------ generateEmbedding (library)
MaxTextLen == 3
EMBEDDING_MODEL == "text-embedding-3-small"
MAX_TOKENS == 8000
CHARS_PER_TOKEN == 4

\* the text arguments: blanks and letters, the empty string among them
EmbedTexts == UNION {[1..n -> {" ", "a"}] : n \in 0..MaxTextLen}

\* lastIndexOf(' '), 0-based, -1 when there is none
LastSpaceIndex(str) ==
  IF \E j \in 1..Len(str) : str[j] = " "
  THEN (CHOOSE j \in 1..Len(str) :
          str[j] = " " /\ \A h \in (j + 1)..Len(str) : str[h] # " ") - 1
  ELSE -1

\* truncateText
TruncateText(text) ==
  LET maxChars == MAX_TOKENS * CHARS_PER_TOKEN
      truncated == SubSeq(text, 1, maxChars)
  IN IF Len(text) <= maxChars THEN text
     ELSE IF LastSpaceIndex(truncated) * 10 > maxChars * 9
          THEN SubSeq(truncated, 1, LastSpaceIndex(truncated))
          ELSE truncated

\* the ways openai.embeddings.create can end: a response with or without an
\* embedding, a rejection with an Error, a rejection with a value that is no Error
Upstreams ==
  {[kind |-> "data", vector |-> <<1, 2>>], [kind |-> "noData"],
   [kind |-> "error", message |-> "OpenAI API Error"],
   [kind |-> "error", message |-> "Rate limit exceeded"],
   [kind |-> "nonError"]}

\* what the catch clause of generateEmbedding is entered with
Thrown(upstream) ==
  CASE upstream.kind = "noData" ->
         [isError |-> TRUE, message |-> "No embedding returned from OpenAI"]
    [] upstream.kind = "error" -> [isError |-> TRUE, message |-> upstream.message]
    [] OTHER -> [isError |-> FALSE, message |-> ""]

\* mutant: the catch clause rethrows what it caught
EmbeddingFailure_Rethrow(thrown) == <<thrown.message>>
\* the message of the Error thrown by the catch clause, as the parts of the
\* template string
EmbeddingFailure(thrown) ==
  <<"Failed to generate embedding: ",
    IF thrown.isError THEN thrown.message ELSE "Unknown error">>

\* generateEmbedding(text) is called
InitEmbed ==
  /\ SyncIdle
  /\ BatchIdle
  /\ SearchIdle
  /\ ClientIdle
  /\ ChatIdle
  /\ StreamIdle
  /\ VectorIdle
  /\ UiIdle
  /\ AuthIdle
  /\ embedCall \in [text : EmbedTexts, upstream : Upstreams]
  /\ embedPc = "called"
  /\ createLog = <<>>
  /\ embedResult = NoEmbedResult

EmbedUnchanged ==
  UNCHANGED <<remoteVars, passVars, faults, pageVars, batchVars, searchVars,
              clientVars, chatVars, streamVars, vectorVars, uiVars, authVars>>

\* the guard on the argument throws
EmbedEmptyInput ==
  /\ embedPc = "called"
  /\ IsBlankText(embedCall.text)
  /\ embedResult' = [threw |-> TRUE, value |-> <<>>,
                     message |-> <<"Text content cannot be empty">>]
  /\ embedPc' = "done"
  /\ UNCHANGED <<embedCall, createLog>>
  /\ EmbedUnchanged

\* the request is sent to the model
EmbedCreate ==
  /\ embedPc = "called"
  /\ ~IsBlankText(embedCall.text)
  /\ createLog' = Append(createLog, [model |-> EMBEDDING_MODEL,
                                     input |-> TruncateText(embedCall.text),
                                     encoding_format |-> "float"])
  /\ embedPc' = "awaiting"
  /\ UNCHANGED <<embedCall, embedResult>>
  /\ EmbedUnchanged

\* the response carries an embedding
EmbedReturns ==
  /\ embedPc = "awaiting"
  /\ embedCall.upstream.kind = "data"
  /\ embedResult' = [threw |-> FALSE, value |-> <<embedCall.upstream.vector>>,
                     message |-> <<>>]
  /\ embedPc' = "done"
  /\ UNCHANGED <<embedCall, createLog>>
  /\ EmbedUnchanged

\* the response carries no embedding, or the request is rejected
EmbedCatch ==
  /\ embedPc = "awaiting"
  /\ embedCall.upstream.kind # "data"
  /\ embedResult' = [threw |-> TRUE, value |-> <<>>,
                     message |-> EmbeddingFailure(Thrown(embedCall.upstream))]
  /\ embedPc' = "done"
  /\ UNCHANGED <<embedCall, createLog>>
  /\ EmbedUnchanged

NextEmbed ==
  \/ EmbedEmptyInput
  \/ EmbedCreate
  \/ EmbedReturns
  \/ EmbedCatch

SpecEmbed == InitEmbed /\ [][NextEmbed]_vars

\* ------------------------------------------ the chat page: session and loading
MaxEvents == 2

\* what useSession returns: no session data unless authenticated; the session
\* callback gives an authenticated session an accessToken or an error, or neither
UseSessionResults ==
  {[status |-> "loading", accessToken |-> FALSE, error |-> FALSE],
   [status |-> "unauthenticated", accessToken |-> FALSE, error |-> FALSE],
   [status |-> "authenticated", accessToken |-> TRUE, error |-> FALSE],
   [status |-> "authenticated", accessToken |-> FALSE, error |-> TRUE],
   [status |-> "authenticated", accessToken |-> FALSE, error |-> FALSE]}

\* session?.accessToken, the dependency of the load effect
Deps(session) == IF session.accessToken THEN "token" ELSE "undefined"

\* mutant: the effect loads whatever the session is
ShouldLoad_Always(session) == TRUE
\* if (session?.accessToken) loadEmbeddings()
ShouldLoad(session) == session.accessToken

\* which of the four returns of the component renders
View(session) ==
  CASE session.status = "loading" -> "spinner"
    [] session.status = "unauthenticated" -> "signIn"
    [] session.status = "authenticated" /\ (~session.accessToken \/ session.error) ->
         "authError"
    [] OTHER -> "chat"

\* the progress banner of the chat view
ProgressShown(st) == (st.isLoading \/ st.progress # <<>>) /\ st.embeddings = "null"

Request(method) == [method |-> method, reply |-> "pending"]
Replied(requests, r) == [requests EXCEPT ![Len(requests)].reply = r]

\* the outer catch clause of loadEmbeddings
OuterCatch(st, msg) ==
  [st EXCEPT !.error = msg, !.isLoading = FALSE, !.progress = <<>>]

\* the events the POST route can enqueue after the events in frames: a start
\* event for n files to embed, one progress or error event per file, then the
\* complete event or the final error event; the final error event alone when the
\* pass fails before its start event. recognised: the page's regular expression
\* matches the event and JSON.parse accepts its data
PerFileCount(frames) ==
  Cardinality({i \in 1..Len(frames) :
                 frames[i].event \in {"progress", "error"} /\ ~frames[i].last})
FinalError(k, n) ==
  {[event |-> "error", recognised |-> r, last |-> TRUE, current |-> k, total |-> n] :
     r \in BOOLEAN}
NextFrames(frames) ==
  IF frames = <<>>
  THEN {[event |-> "start", recognised |-> TRUE, last |-> FALSE, current |-> 0,
         total |-> n] : n \in 0..MaxEvents} \cup FinalError(0, 0)
  ELSE IF frames[Len(frames)].last THEN {}
  ELSE LET n == frames[1].total
           k == PerFileCount(frames)
       IN IF k < n
          THEN {[event |-> e, recognised |-> r, last |-> FALSE, current |-> k + 1,
                 total |-> n] : e \in {"progress", "error"}, r \in BOOLEAN}
          ELSE {[event |-> "complete", recognised |-> TRUE, last |-> TRUE,
                 current |-> k, total |-> n]} \cup FinalError(k, n)

\* the page is rendered for the first time
InitPage ==
  /\ SyncIdle
  /\ BatchIdle
  /\ SearchIdle
  /\ ClientIdle
  /\ ChatIdle
  /\ StreamIdle
  /\ VectorIdle
  /\ EmbedIdle
  /\ AuthIdle
  /\ uiSession \in UseSessionResults
  /\ uiDeps = "unmounted"
  /\ uiPc = "idle"
  /\ uiState = InitialUiState
  /\ uiRequests = <<>>
  /\ uiFrames = <<>>

UiUnchanged ==
  UNCHANGED <<remoteVars, passVars, faults, pageVars, batchVars, searchVars,
              clientVars, chatVars, streamVars, vectorVars, embedVars, authVars>>

\* the session request of useSession ends
SessionSettles ==
  /\ uiSession.status = "loading"
  /\ uiSession' \in {s \in UseSessionResults : s.status # "loading"}
  /\ UNCHANGED <<uiDeps, uiPc, uiState, uiRequests, uiFrames>>
  /\ UiUnchanged

\* the load effect runs and does nothing
EffectSkips ==
  /\ uiDeps # Deps(uiSession)
  /\ ~ShouldLoad(uiSession)
  /\ uiDeps' = Deps(uiSession)
  /\ UNCHANGED <<uiSession, uiPc, uiState, uiRequests, uiFrames>>
  /\ UiUnchanged

\* the load effect calls loadEmbeddings, which runs up to its first await
EffectLoads ==
  /\ uiDeps # Deps(uiSession)
  /\ ShouldLoad(uiSession)
  /\ uiDeps' = Deps(uiSession)
  /\ uiState' = [uiState EXCEPT !.isLoading = TRUE, !.error = "", !.progress = <<>>]
  /\ uiRequests' = Append(uiRequests, Request("GET"))
  /\ uiPc' = "get"
  /\ UNCHANGED <<uiSession, uiFrames>>
  /\ UiUnchanged

GetReplies == {"401", "404", "500", "empty", "full", "reject"}

\* the first GET ends: 401, 404, another failure status, 200 without records,
\* 200 with records, or a rejected fetch
UiGetReply ==
  /\ uiPc = "get"
  /\ \E r \in GetReplies :
       CASE r = "401" ->
              /\ uiState' = [uiState EXCEPT
                               !.error = "Session expired. Please sign in again.",
                               !.isLoading = FALSE]
              /\ uiRequests' = Replied(uiRequests, r)
              /\ uiPc' = "returned"
         [] r = "500" ->
              /\ uiState' = [uiState EXCEPT !.error = "Failed to load embeddings: 500",
                                            !.isLoading = FALSE]
              /\ uiRequests' = Replied(uiRequests, r)
              /\ uiPc' = "returned"
         [] r = "full" ->
              /\ uiState' = [uiState EXCEPT !.embeddings = "loaded",
                                            !.isLoading = FALSE, !.error = ""]
              /\ uiRequests' = Replied(uiRequests, r)
              /\ uiPc' = "returned"
         [] r = "reject" ->
              /\ uiState' = OuterCatch(uiState, "Failed to load embeddings")
              /\ uiRequests' = Replied(uiRequests, r)
              /\ uiPc' = "returned"
         [] OTHER ->
              /\ uiState' = [uiState EXCEPT !.progress = <<[current |-> 0, total |-> 0]>>]
              /\ uiRequests' = Append(Replied(uiRequests, r), Request("POST"))
              /\ uiPc' = "post"
  /\ UNCHANGED <<uiSession, uiDeps, uiFrames>>
  /\ UiUnchanged

PostReplies == {"notOk", "noBody", "stream", "reject"}

\* the POST ends: a failure status, a response without body, a response with
\* the progress stream, or a rejected fetch
UiPostReply ==
  /\ uiPc = "post"
  /\ \E r \in PostReplies :
       /\ uiRequests' = Replied(uiRequests, r)
       /\ CASE r = "notOk" ->
                 /\ uiState' = OuterCatch(uiState, "Failed to create embeddings: 500")
                 /\ uiPc' = "returned"
            [] r = "noBody" ->
                 /\ uiState' = OuterCatch(uiState, "No response stream")
                 /\ uiPc' = "returned"
            [] r = "reject" ->
                 /\ uiState' = OuterCatch(uiState, "Failed to load embeddings")
                 /\ uiPc' = "returned"
            [] OTHER ->
                 /\ uiState' = uiState
                 /\ uiPc' = "read"
  /\ UNCHANGED <<uiSession, uiDeps, uiFrames>>
  /\ UiUnchanged

\* reader.read() delivers one event of the progress stream and the page handles it
ReadFrame ==
  /\ uiPc = "read"
  /\ \E f \in NextFrames(uiFrames) :
       /\ uiFrames' = Append(uiFrames, f)
       /\ CASE ~f.recognised ->
                 UNCHANGED <<uiState, uiRequests, uiPc>>
            [] f.recognised /\ f.event = "start" ->
                 /\ uiState' = [uiState EXCEPT
                                  !.progress = <<[current |-> 0, total |-> f.total]>>]
                 /\ UNCHANGED <<uiRequests, uiPc>>
            [] f.recognised /\ f.event = "progress" ->
                 /\ uiState' = [uiState EXCEPT
                                  !.progress = <<[current |-> f.current,
                                                  total |-> f.total]>>]
                 /\ UNCHANGED <<uiRequests, uiPc>>
            [] f.recognised /\ f.event = "error" ->
                 /\ uiState' = OuterCatch(uiState, "Embedding error")
                 /\ uiPc' = "returned"
                 /\ UNCHANGED uiRequests
            [] OTHER ->
                 /\ uiState' = [uiState EXCEPT !.progress = <<>>, !.isLoading = FALSE]
                 /\ uiRequests' = Append(uiRequests, Request("GET"))
                 /\ uiPc' = "finalGet"
  /\ UNCHANGED <<uiSession, uiDeps>>
  /\ UiUnchanged

\* reader.read() reports the end of the stream: the loop ends and loadEmbeddings
\* returns
ReadDone ==
  /\ uiPc = "read"
  /\ uiPc' = "returned"
  /\ UNCHANGED <<uiSession, uiDeps, uiState, uiRequests, uiFrames>>
  /\ UiUnchanged

\* reader.read() rejects
ReadRejects ==
  /\ uiPc = "read"
  /\ uiState' = OuterCatch(uiState, "Failed to load embeddings")
  /\ uiPc' = "returned"
  /\ UNCHANGED <<uiSession, uiDeps, uiRequests, uiFrames>>
  /\ UiUnchanged

FinalGetReplies == {"ok", "okEmpty", "notOk", "reject"}

\* the GET sent after the complete event ends
FinalGetReply ==
  /\ uiPc = "finalGet"
  /\ \E r \in FinalGetReplies :
       /\ uiRequests' = Replied(uiRequests, r)
       /\ CASE r = "ok" ->
                 /\ uiState' = [uiState EXCEPT !.embeddings = "loaded", !.error = ""]
                 /\ uiPc' = "returned"
            [] r = "okEmpty" ->
                 /\ uiState' = [uiState EXCEPT !.embeddings = "empty", !.error = ""]
                 /\ uiPc' = "returned"
            [] r = "notOk" ->
                 /\ uiState' = uiState
                 /\ uiPc' = "returned"
            [] OTHER ->
                 /\ uiState' = uiState
                 /\ uiPc' = "read"
  /\ UNCHANGED <<uiSession, uiDeps, uiFrames>>
  /\ UiUnchanged

NextPage ==
  \/ SessionSettles
  \/ EffectSkips
  \/ EffectLoads
  \/ UiGetReply
  \/ UiPostReply
  \/ ReadFrame
  \/ ReadDone
  \/ ReadRejects
  \/ FinalGetReply

SpecPage == InitPage /\ [][NextPage]_vars

\* ------------------------------------------------- auth: jwt and session callbacks
MaxTime == 5
MaxRefreshes == 3
\* expires_in of the tokens Google issues, in ticks of authNow
TokenLife == 2

RefreshError == "RefreshAccessTokenError"

\* refreshAccessToken: the token returned when the request succeeds with a new
\* access_token, and when it fails
RefreshAccessToken(token, ok, time) ==
  IF ok
  THEN [token EXCEPT !.accessToken = token.accessToken + 1,
                     !.accessTokenExpires = time + TokenLife]
  ELSE [token EXCEPT !.error = RefreshError]

\* the session callback: session.error or session.accessToken is set on the
\* session object built for the request
SessionCallback(token) ==
  IF token.error = RefreshError
  THEN [accessToken |-> 0, error |-> RefreshError]
  ELSE [accessToken |-> token.accessToken, error |-> ""]

\* nobody has signed in
InitAuth ==
  /\ SyncIdle
  /\ BatchIdle
  /\ SearchIdle
  /\ ClientIdle
  /\ ChatIdle
  /\ StreamIdle
  /\ VectorIdle
  /\ EmbedIdle
  /\ UiIdle
  /\ authToken = NoToken
  /\ authNow \in 0..1
  /\ authSession = NoAuthSession
  /\ refreshLog = <<>>

AuthUnchanged ==
  UNCHANGED <<remoteVars, passVars, faults, pageVars, batchVars, searchVars,
              clientVars, chatVars, streamVars, vectorVars, embedVars, uiVars>>

\* time passes
AuthTick ==
  /\ authNow < MaxTime
  /\ authNow' = authNow + 1
  /\ UNCHANGED <<authToken, authSession, refreshLog>>
  /\ AuthUnchanged

\* jwt callback with account and user (sign-in), the token being the one
\* next-auth makes from the profile; no session has been built from it yet
SignIn ==
  /\ authToken = NoToken \/ authToken.error # ""
  /\ authToken' = [accessToken |-> authToken.accessToken + 1,
                   accessTokenExpires |-> authNow + TokenLife,
                   refreshToken |-> 1, error |-> ""]
  /\ authSession' = NoAuthSession
  /\ refreshLog' = <<>>
  /\ UNCHANGED authNow
  /\ AuthUnchanged

\* a session request before accessTokenExpires: the jwt callback returns the
\* token as it is, the session callback builds the session
JwtStillValid ==
  /\ authToken # NoToken
  /\ authNow < authToken.accessTokenExpires
  /\ authSession' = SessionCallback(authToken)
  /\ UNCHANGED <<authToken, authNow, refreshLog>>
  /\ AuthUnchanged

\* a session request at or after accessTokenExpires: the jwt callback returns
\* what refreshAccessToken returns, whose request succeeds or fails, and the
\* session callback builds the session
JwtRefresh ==
  /\ authToken # NoToken
  /\ authNow >= authToken.accessTokenExpires
  /\ Len(refreshLog) < MaxRefreshes
  /\ \E ok \in BOOLEAN :
       /\ authToken' = RefreshAccessToken(authToken, ok, authNow)
       /\ refreshLog' = Append(refreshLog, IF ok THEN "ok" ELSE "failed")
  /\ authSession' = SessionCallback(authToken')
  /\ UNCHANGED authNow
  /\ AuthUnchanged

NextAuthStep ==
  \/ AuthTick
  \/ SignIn
  \/ JwtStillValid
  \/ JwtRefresh

SpecAuth == InitAuth /\ [][NextAuthStep]_vars

\* ------------------------------------------------------------------- claims
\* the diff has run: the start event is the first event of the stream
Diffed == events # <<>> /\ events[1].type = "start"

Last(sq) == sq[Len(sq)]

\* some record of embs carries the file's id and the file's modifiedTime
UpToDate(file, embs) ==
  \E r \in Range(embs) : r.fileId = file.id /\ r.modifiedTime = file.modifiedTime

HasRecord(id, embs) == \E r \in Range(embs) : r.fileId = id

UniqueFileIds(embs) ==
  \A a, b \in 1..Len(embs) : embs[a].fileId = embs[b].fileId => a = b

\* C1: after Diffing, a listed file is in the to-embed set if and only if the
\* loaded snapshot has no record with its fileId or that record's modifiedTime
\* is not the file's modifiedTime; the to-embed set holds listed files only, one
\* entry per listing entry that needs embedding.
C1_DiffIff ==
  Diffed =>
    /\ \A i \in 1..Len(files) :
         (files[i] \in Range(toEmbed)) <=> ~UpToDate(files[i], existingEmbeddings)
    /\ Range(toEmbed) \subseteq Range(files)
    /\ Len(toEmbed) =
         Cardinality({i \in 1..Len(files) : ~UpToDate(files[i], existingEmbeddings)})

\* a diff that meets the three cases at once: a file with no record, a file whose
\* record is stale, and a file whose record is up to date
C1_Witness ==
  /\ Diffed
  /\ \E a, b, c \in 1..Len(files) :
       /\ ~HasRecord(files[a].id, existingEmbeddings)
       /\ HasRecord(files[b].id, existingEmbeddings)
       /\ ~UpToDate(files[b], existingEmbeddings)
       /\ UpToDate(files[c], existingEmbeddings)
       /\ files[a] \in Range(toEmbed)
       /\ files[b] \in Range(toEmbed)
       /\ files[c] \notin Range(toEmbed)

\* C2: for a listed file whose modifiedTime equals its record's, no content
\* fetch and no embedding call is issued in the pass and the record is in every
\* snapshot the pass writes; a pass whose listing is fully up to date fetches
\* nothing and writes exactly the existing records.
C2_UnchangedPreserved ==
  Diffed =>
    /\ \A i \in 1..Len(files) : \A r \in Range(existingEmbeddings) :
         (r.fileId = files[i].id /\ r.modifiedTime = files[i].modifiedTime) =>
           /\ files[i].id \notin fetchLog
           /\ files[i].id \notin embedLog
           /\ r \in Range(embedded)
           /\ \A u \in 1..Len(uploadLog) : r \in Range(uploadLog[u].data.embeddings)
    /\ (\A i \in 1..Len(files) : UpToDate(files[i], existingEmbeddings)) =>
         /\ toEmbed = <<>>
         /\ fetchLog = {}
         /\ embedLog = {}
         /\ \A u \in 1..Len(uploadLog) :
              uploadLog[u].data.embeddings = existingEmbeddings

\* a finished pass that re-embedded one file and kept another file's record
C2_Witness ==
  /\ pc = "done"
  /\ \E i \in 1..Len(files) : UpToDate(files[i], existingEmbeddings)
  /\ \E k \in 1..Len(toEmbed) : task[k] = "ok"
  /\ uploadLog # <<>>

\* C3: per-file failures never stop the pass: once the diff has run the batch
\* loop cannot hang, the pass leaves it only with every to-embed file fetched and
\* settled and the snapshot upload issued, and it ends with the complete event
\* unless that upload itself fails.
C3_FailuresIsolated ==
  Diffed =>
    /\ pc = "batch" =>
         \E k \in BatchIdx(batchStart, Len(toEmbed)) : Outstanding(task[k])
    /\ pc \in {"upload", "done", "aborted"} =>
         /\ \A k \in 1..Len(toEmbed) : Settled(task[k]) /\ toEmbed[k].id \in fetchLog
         /\ uploadLog # <<>>
    /\ (closed /\ failedAt # "upload") => pc = "done" /\ Last(events).type = "complete"

\* a completed pass of two batches with a failed and a successful file in the
\* first batch and a successful file in the second
C3_Witness ==
  /\ pc = "done"
  /\ Len(toEmbed) > BATCH_SIZE
  /\ \E a, b \in 1..BATCH_SIZE : task[a] = "none" /\ task[b] = "ok"
  /\ \E c \in (BATCH_SIZE + 1)..Len(toEmbed) : task[c] = "ok"

\* C4: batches run one after another: a task has started only if every task of
\* every earlier batch has settled, and at most BATCH_SIZE fetch or embedding
\* calls are outstanding.
C4_BatchesSequential ==
  /\ Cardinality({k \in DOMAIN task : Outstanding(task[k])}) <= BATCH_SIZE
  /\ \A j, k \in DOMAIN task :
       (task[k] # "waiting" /\ (j - 1) \div BATCH_SIZE < (k - 1) \div BATCH_SIZE)
         => Settled(task[j])

\* the second batch is running with a call outstanding
C4_Witness ==
  /\ pc = "batch"
  /\ batchStart = BATCH_SIZE
  /\ \E k \in DOMAIN task : k > BATCH_SIZE /\ Outstanding(task[k])

IsPerFileEvent(e) ==
  \/ e.type = "progress" /\ e.status = "completed"
  \/ e.type = "error" /\ e.fileName # NoId
IsTerminalEvent(e) ==
  \/ e.type = "complete"
  \/ e.type = "error" /\ e.fileName = NoId

\* C5 as claimed: one start event first, then progress events only, then one
\* terminal complete or error event; an error event only as the last event.
C5_Original ==
  /\ events # <<>> => events[1].type = "start"
  /\ \A k \in 1..Len(events) :
       /\ events[k].type = "start" => k = 1
       /\ events[k].type \in {"complete", "error"} => k = Len(events)
  /\ closed => events # <<>> /\ Last(events).type \in {"complete", "error"}

\* C5 (amended): the stream is an optional start event (missing exactly when the
\* pass aborted before the diff), then per-file events (progress with status
\* completed, or error carrying the file's name), then one terminal event
\* (complete, or error without a file name when the pass aborted) after which
\* the stream is closed and nothing follows.
C5_EventOrder ==
  /\ \A k \in 1..Len(events) :
       /\ events[k].type = "start" => k = 1
       /\ IsPerFileEvent(events[k]) => k > 1 /\ events[1].type = "start"
       /\ IsTerminalEvent(events[k]) => k = Len(events) /\ closed
       /\ events[k].type = "start" \/ IsPerFileEvent(events[k])
            \/ IsTerminalEvent(events[k])
  /\ closed =>
       /\ events # <<>>
       /\ IsTerminalEvent(Last(events))
       /\ Last(events).type = "complete" <=> pc = "done"
       /\ Last(events).type = "error" <=> pc = "aborted"
       /\ events[1].type # "start" <=> failedAt \in {"scan", "search", "download"}
  /\ ~closed /\ events # <<>> => events[1].type = "start"

\* a completed stream holding a progress event and a per-file error event
C5_Witness ==
  /\ closed
  /\ pc = "done"
  /\ \E a, b \in 1..Len(events) :
       /\ events[a].type = "progress"
       /\ events[b].type = "error"
       /\ b < Len(events)

\* C6: a failure of listing, search, read or write aborts the pass with the
\* terminal error event and no complete event; the snapshot upload is called at
\* most once per pass, only after the diff with every task settled, and never
\* when listing, search or read failed.
C6_FatalAborts ==
  /\ failedAt # "none" =>
       /\ pc = "aborted"
       /\ closed
       /\ Last(events) = FinalErrorEvent
       /\ \A k \in 1..Len(events) : events[k].type # "complete"
  /\ pc = "aborted" => failedAt # "none"
  /\ Len(uploadLog) <= 1
  /\ uploadLog # <<>> =>
       /\ Diffed
       /\ \A k \in 1..Len(toEmbed) : Settled(task[k])
       /\ pc \in {"upload", "done", "aborted"}
  /\ failedAt \in {"scan", "search", "download"} => uploadLog = <<>>
  /\ failedAt = "upload" => Len(uploadLog) = 1

\* the upload of a two-batch pass failed after a file had been embedded
C6_Witness ==
  /\ failedAt = "upload"
  /\ Len(toEmbed) > BATCH_SIZE
  /\ \E k \in 1..Len(events) : events[k].type = "progress"

\* C7: when the pass found a snapshot file, uploadEmbeddingsFile is called with
\* that file's id; it is called without an id only when none was found.
C7_UpdateInPlace ==
  \A u \in 1..Len(uploadLog) : uploadLog[u].existingFileId = found

\* C8: the Drive never holds more than one file named marina-embeddings.json.
C8_SingleSnapshot == Len(remoteSnapshots) <= 1

\* C9: with at most one record per fileId in the loaded snapshot, the
\* accumulating set and every uploaded snapshot hold at most one record per
\* fileId, and the record of a merged, successfully embedded file is the new one.
C9_OneRecordPerFile ==
  UniqueFileIds(existingEmbeddings) =>
    /\ UniqueFileIds(embedded)
    /\ \A u \in 1..Len(uploadLog) : UniqueFileIds(uploadLog[u].data.embeddings)
    /\ \A k \in DOMAIN task :
         (task[k] = "ok" /\ (pc # "batch" \/ k <= batchStart)) =>
           /\ Embedding(toEmbed[k]) \in Range(embedded)
           /\ \A r \in Range(existingEmbeddings) :
                (r.fileId = toEmbed[k].id /\ r # Embedding(toEmbed[k]))
                   => r \notin Range(embedded)

\* a finished pass whose listing named a file twice, the file having a stale
\* record, with both entries embedded
C9_Witness ==
  /\ pc = "done"
  /\ \E a, b \in DOMAIN task :
       /\ a # b
       /\ toEmbed[a].id = toEmbed[b].id
       /\ task[a] = "ok"
       /\ task[b] = "ok"
       /\ HasRecord(toEmbed[a].id, existingEmbeddings)

\* C10: when the page has loaded and a listed file's record was stale in the
\* snapshot the page met, the page has started a sync pass.
C10_PageReSyncs == (pagePc = "ready" /\ pageStale) => pagePosted

\* C11: a page that read the stream of a completed pass (the stream ends with the
\* complete event, whatever per-file error events precede it) shows no error:
\* the page is in its error state only when the pass it started aborted.
C11_PerFileErrorInvisible ==
  (pagePosted /\ pagePc \in {"ready", "error"}) =>
     (pagePc = "error" <=> pc = "aborted")

CalledWith(rs) ==
  {modelCalls[c].file : c \in {d \in 1..Len(modelCalls) : modelCalls[d].result \in rs}}

\* the notifications of the given status, as indexes into progress
NotesOf(status) == {n \in 1..Len(progress) : progress[n].status = status}

HasNoText(p) ==
  \/ Trim(batchFiles[p].content) = <<>>
  \/ Trim(ExtractTextContent(batchFiles[p])) = <<>>

\* C14: a file with absent or blank content or blank extracted text yields no
\* record, no call to the embedding model and no status=error notification, at
\* any point of the call; the loop goes on to the files after it, so that the
\* returned call has announced every file.
C14_BlankSkippedSilently ==
  \A p \in 1..Len(batchFiles) :
     HasNoText(p) =>
       /\ \A r \in Range(embeddings) : r.fileId # p
       /\ \A c \in 1..Len(modelCalls) : modelCalls[c].file # p
       /\ \A n \in NotesOf("error") : progress[n].current # p
       /\ (batchPc = "extract" /\ batchI + 1 = p) => ENABLED SkipBlank
       /\ batchPc = "returned" =>
            \A q \in p..Len(batchFiles) :
               \E n \in NotesOf("processing") : progress[n].current = q

\* a returned call whose second file had content but blank extracted text, and
\* whose first and third files were embedded
C14_Witness ==
  /\ batchPc = "returned"
  /\ Len(batchFiles) = 3
  /\ batchFiles[2].content # <<>>
  /\ HasNoText(2)
  /\ CalledWith({"ok"}) = {1, 3}

\* the number of files whose loop body has begun
Started == batchI + (IF batchPc \in {"extract", "embedding"} THEN 1 ELSE 0)

C16_SortedStable ==
  searchPc = "returned" =>
    \A a, b \in 1..Len(searchResult.matches) :
       a < b =>
         /\ searchResult.matches[a].similarity >= searchResult.matches[b].similarity
         /\ searchResult.matches[a].similarity = searchResult.matches[b].similarity
              => searchResult.matches[a].embedding.fileId
                   < searchResult.matches[b].embedding.fileId

\* a returned search whose matches hold two records of equal similarity behind a
\* record of higher similarity that came later in the input
C16_Witness ==
  /\ searchPc = "returned"
  /\ Len(searchResult.matches) = 3
  /\ searchResult.matches[1].similarity > searchResult.matches[2].similarity
  /\ searchResult.matches[2].similarity = searchResult.matches[3].similarity
  /\ searchResult.matches[1].embedding.fileId > searchResult.matches[3].embedding.fileId

\* the query with threshold 0 and no limit
AtThresholdZero(q) == [q EXCEPT !.similarityThreshold = 0, !.limit = Undefined]

\* the matches of the threshold-0 search of similarity >= t, in their order
ZeroMatchesFrom(t) ==
  SelectSeq(PerformSimilaritySearch(searchEmbeddings, AtThresholdZero(query)).matches,
            LAMBDA m : m.similarity >= t)

\* C17 as claimed: for every threshold t, without limit, the matches are the
\* matches of the threshold-0 search with similarity >= t, in the same order.
C17_Original ==
  (searchPc = "returned" /\ query.limit = Undefined) =>
     searchResult.matches = ZeroMatchesFrom(Threshold(query))

\* C17 (amended): the same for every threshold t >= 0.
C17_ThresholdFilters ==
  (searchPc = "returned" /\ query.limit = Undefined /\ Threshold(query) >= 0) =>
     searchResult.matches = ZeroMatchesFrom(Threshold(query))

\* a returned search with a positive threshold and no limit that keeps a record
\* whose similarity equals the threshold and drops a record the threshold-0
\* search returns
C17_Witness ==
  /\ searchPc = "returned"
  /\ query.limit = Undefined
  /\ Threshold(query) > 0
  /\ Len(searchResult.matches) >= 2
  /\ \E k \in 1..Len(searchResult.matches) :
        searchResult.matches[k].similarity = Threshold(query)
  /\ Len(searchResult.matches) < Len(ZeroMatchesFrom(0))

\* the input positions of the records that can be scored and pass the threshold
Passing ==
  {k \in 1..Len(searchEmbeddings) :
     LET c == CosineSimilarity(query.queryVector, searchEmbeddings[k].vector)
     IN ~c.threw /\ c.value >= Threshold(query)}

\* the input positions of the records returned
Returned ==
  {searchResult.matches[k].embedding.fileId : k \in 1..Len(searchResult.matches)}

\* C18: totalMatches is the number of records that pass the threshold, whatever
\* the limit; the matches are min(limit, totalMatches) distinct passing records
\* (all of them without limit), each with its own similarity, and no record left
\* out has a higher similarity than a record returned; an empty collection
\* gives no matches and totalMatches 0.
C18_TotalAndLimit ==
  searchPc = "returned" =>
    /\ searchResult.totalMatches = Cardinality(Passing)
    /\ Len(searchResult.matches) =
         IF query.limit = Undefined THEN searchResult.totalMatches
         ELSE Min(query.limit, searchResult.totalMatches)
    /\ Returned \subseteq Passing
    /\ Cardinality(Returned) = Len(searchResult.matches)
    /\ \A k \in 1..Len(searchResult.matches) :
         LET m == searchResult.matches[k]
         IN /\ m.embedding = searchEmbeddings[m.embedding.fileId]
            /\ m.similarity =
                 CosineSimilarity(query.queryVector, m.embedding.vector).value
    /\ \A p \in Passing \ Returned : \A k \in 1..Len(searchResult.matches) :
         CosineSimilarity(query.queryVector, searchEmbeddings[p].vector).value
           <= searchResult.matches[k].similarity
    /\ searchEmbeddings = <<>> =>
         searchResult = [matches |-> <<>>, totalMatches |-> 0]

\* a returned search whose limit cut off a passing record of lower similarity
\* that stood first in the input
C18_Witness ==
  /\ searchPc = "returned"
  /\ query.limit # Undefined
  /\ query.limit > 0
  /\ searchResult.totalMatches > query.limit
  /\ 1 \in Passing \ Returned

\* a record whose vector has zero magnitude or another length than the query vector
Corrupt(e) ==
  \/ Len(e.vector) # Len(query.queryVector)
  \/ Magnitude(e.vector) = 0

\* C19: a returned search holds no corrupt record among its matches and counts
\* none in totalMatches, and its result is the result of the same search over
\* the collection without the corrupt records; with a query vector that can be
\* scored, every other record that passes the threshold is counted.
C19_CorruptRecordsDropped ==
  searchPc = "returned" =>
    /\ \A k \in 1..Len(searchResult.matches) :
         ~Corrupt(searchResult.matches[k].embedding)
    /\ searchResult =
         PerformSimilaritySearch(
           SelectSeq(searchEmbeddings, LAMBDA e : ~Corrupt(e)), query)
    /\ Magnitude(query.queryVector) # 0 =>
         searchResult.totalMatches =
           Cardinality({k \in 1..Len(searchEmbeddings) :
              /\ ~Corrupt(searchEmbeddings[k])
              /\ (DotProduct(query.queryVector, searchEmbeddings[k].vector, 1) * 100)
                    \div (Magnitude(query.queryVector)
                            * Magnitude(searchEmbeddings[k].vector))
                   >= Threshold(query)})

\* a returned search over a zero vector, a vector of another length and, behind
\* them, a record that is returned
C19_Witness ==
  /\ searchPc = "returned"
  /\ Len(searchEmbeddings) = 3
  /\ Magnitude(searchEmbeddings[1].vector) = 0
  /\ Len(searchEmbeddings[2].vector) # Len(query.queryVector)
  /\ Returned = {3}
  /\ searchResult.totalMatches = 1

\* C20: every match returned carries the band of its own similarity: high if
\* and only if the similarity is at least 0.8, medium if and only if it is at
\* least 0.6 and below 0.8, low if and only if it is below 0.6.
C20_RelevanceBands ==
  searchPc = "returned" =>
    \A k \in 1..Len(searchResult.matches) :
       LET m == searchResult.matches[k]
       IN /\ m.relevance \in {"high", "medium", "low"}
          /\ m.relevance = "high" <=> m.similarity >= 80
          /\ m.relevance = "medium" <=> (m.similarity >= 60 /\ m.similarity < 80)
          /\ m.relevance = "low" <=> m.similarity < 60

\* a returned search with a match of similarity exactly 0.8 in band high, one of
\* exactly 0.6 in band medium and one below in band low
C20_Witness ==
  /\ searchPc = "returned"
  /\ \E a, b, c \in 1..Len(searchResult.matches) :
        /\ searchResult.matches[a].similarity = 80
        /\ searchResult.matches[a].relevance = "high"
        /\ searchResult.matches[b].similarity = 60
        /\ searchResult.matches[b].relevance = "medium"
        /\ searchResult.matches[c].similarity < 60
        /\ searchResult.matches[c].relevance = "low"

\* ---- C21
Scanning == clientCall.fn = "scanAllFiles"

RECURSIVE AllowedOfPage(_, _, _)
\* the files of page p from position k on whose MIME type is in the allow-list
AllowedOfPage(pages, p, k) ==
  IF k > Len(pages[p]) THEN <<>>
  ELSE (IF pages[p][k] \in SUPPORTED_MIME_TYPES
          THEN <<ListedFile(p, k, pages[p][k])>> ELSE <<>>)
       \o AllowedOfPage(pages, p, k + 1)

RECURSIVE AllowedFrom(_, _)
\* the allowed files of the pages from page p on, in page order
AllowedFrom(pages, p) ==
  IF p > Len(pages) THEN <<>>
  ELSE AllowedOfPage(pages, p, 1) \o AllowedFrom(pages, p + 1)

C22_ScanFailsWhole ==
  Scanning =>
    /\ clientLocals.rejected =>
         /\ clientPc = "threw"
         /\ clientResult.threw
         /\ clientResult.error = ScanError
         /\ clientResult.value = <<>>
    /\ clientPc = "threw" => clientLocals.rejected
    /\ clientPc = "returned" => ~clientLocals.rejected

\* the third page failed after two pages had brought supported files
C22_Witness ==
  /\ Scanning
  /\ clientPc = "threw"
  /\ Len(driveLog) = 3
  /\ Len(clientLocals.allFiles) >= 2
  /\ clientResult.threw

\* ---- C23
Downloading == clientCall.fn = "downloadFileContent"

\* C23: downloadFileContent never throws; when the request to the Drive is
\* rejected, for a workspace-native file as for any other, the call returns
\* the empty string, and otherwise the body received, so the caller always
\* gets a string.
C23_ContentNeverThrows ==
  Downloading =>
    /\ clientPc # "threw"
    /\ ~clientResult.threw
    /\ clientLocals.rejected => (clientPc = "returned" /\ clientResult.value = <<>>)
    /\ (clientPc = "returned" /\ ~clientLocals.rejected) => clientResult.value = FileBody

\* the export of a spreadsheet was rejected and the call returned ''
C23_Witness ==
  /\ Downloading
  /\ clientCall.file.mimeType = GoogleSheet
  /\ clientLocals.rejected
  /\ clientPc = "returned"
  /\ clientResult = Returns(<<>>)

\* ---- C24
\* the MIME type a workspace-native file is to be exported as
WorkspaceExportType(mimeType) ==
  CASE mimeType = GoogleDoc -> "text/plain"
    [] mimeType = GoogleSheet -> "text/csv"
    [] mimeType = GoogleSlides -> "text/plain"
    [] OTHER -> ""

\* C24: the one request of downloadFileContent is an export (files.export)
\* with text/plain for a document, text/csv for a spreadsheet and text/plain
\* for a presentation, and a media download (files.get, alt=media) for every
\* other MIME type; a workspace-native file is never asked for with alt=media.
C24_ExportForWorkspaceTypes ==
  (Downloading /\ Len(driveLog) > 0) =>
    LET r == driveLog[1]
        export == WorkspaceExportType(clientCall.file.mimeType)
    IN /\ Len(driveLog) = 1
       /\ r.fileId = clientCall.file.id
       /\ IF export # ""
            THEN r.method = "files.export" /\ r.mimeType = export /\ r.alt # "media"
            ELSE r.method = "files.get" /\ r.alt = "media"

\* ---- C25
FetchingSnapshot == clientCall.fn = "downloadEmbeddingsFile"

\* the body parses to an object with a records sequence, the format version,
\* the generation time, the model id and the vector dimension
HasSnapshotFields(p) ==
  /\ p.syntax = "object"
  /\ p.embeddings = "array"
  /\ p.version = "set"
  /\ p.generatedAt = "set"
  /\ p.metadata = "ok"

\* C25: downloadEmbeddingsFile throws, and returns no snapshot, for every
\* body that does not parse or that lacks the records sequence, the version,
\* generatedAt, the model id or the vector dimension.
C25_InvalidSnapshotRejected ==
  (FetchingSnapshot /\ clientPc \in {"returned", "threw"}
     /\ ~HasSnapshotFields(clientCall.payload)) =>
    /\ clientPc = "threw"
    /\ clientResult.threw
    /\ clientResult.value = <<>>

\* ---- C26
\* the search of this pass found no snapshot file and the pass went on
NoSnapshotFound == Diffed /\ found = NoId

\* C26: when searchEmbeddingsFile finds no snapshot file, the pass does not
\* abort on it and sends no error event for it: its first event is the start
\* event, the existing-record set is empty, every listed file is in the
\* to-embed set, and the start event reports zero existing records and all
\* listed files as to embed.
C26_FirstSyncIsNormal ==
  NoSnapshotFound =>
    /\ existingEmbeddings = <<>>
    /\ toEmbed = files
    /\ events[1] = [type |-> "start", total |-> Len(files), toEmbed |-> Len(files),
                    existing |-> 0]
    /\ failedAt \notin {"scan", "search", "download"}
    /\ pc \notin {"scan", "search", "download"}

\* a first pass over two files is embedding them, nothing having failed
C26_Witness ==
  /\ NoSnapshotFound
  /\ Len(files) >= 2
  /\ pc = "batch"
  /\ Len(events) = 1
  /\ ~closed

\* ---- C29
IsTerminalCallback(inv) == inv.cb \in {"onDone", "onError"}

TerminalCalls == {k \in 1..Len(callbackLog) : IsTerminalCallback(callbackLog[k])}

\* C29: a call of streamChatCompletion that is given onDone and onError invokes
\* exactly one of them, once: never both, at most one at any point of the call
\* and one when the call has ended; and no callback, onToken in particular, is
\* invoked after it; whatever the model stream does and whether the callbacks
\* return or raise.
C29_OneTerminalCallback ==
  (streamCall.onDone # "absent" /\ streamCall.onError # "absent") =>
    /\ Cardinality(TerminalCalls) <= 1
    /\ streamPc \in {"resolved", "rejected"} => Cardinality(TerminalCalls) = 1
    /\ \A k \in TerminalCalls : k = Len(callbackLog)

\* ---- C27
\* the retrieval step of the chat route has run
Retrieved == chatPc = "streaming"

\* the similarity of a snapshot record to the question, in hundredths
QuestionSimilarity(e) == CosineSimilarity(QuestionVector, e.vector).value

\* C27: for a chat question, retrieval keeps at most 5 matches, each of
\* similarity 0.5 or more, most similar first, and as many as the snapshot
\* holds such records up to 5; the route builds one context string and one
\* citation per match, in the order of the matches; a citation carries the
\* fileId and the fileName of its match, and the webViewLink exactly when the
\* record has one.
C27_RetrievalBounds ==
  Retrieved =>
    LET matches == chatLocals.matches
        passing == {k \in 1..Len(chatLocals.embeddings) :
                      QuestionSimilarity(chatLocals.embeddings[k]) >= 50}
    IN /\ Len(matches) <= 5
       /\ Len(matches) = Min(5, Cardinality(passing))
       /\ \A i \in 1..Len(matches) :
            /\ matches[i].similarity >= 50
            /\ matches[i].similarity = QuestionSimilarity(matches[i].embedding)
            /\ \E k \in passing : chatLocals.embeddings[k] = matches[i].embedding
       /\ \A i, j \in 1..Len(matches) :
            i < j => matches[i].similarity >= matches[j].similarity
       /\ Len(chatLocals.contextDocs) = Len(matches)
       /\ Len(chatLocals.citations) = Len(matches)
       /\ \A i \in 1..Len(matches) :
            LET e == matches[i].embedding
                c == chatLocals.citations[i]
            IN /\ chatLocals.contextDocs[i] = <<"File: ", e.fileName, "\nContent: ", e.content>>
               /\ c.fileId = e.fileId
               /\ c.fileName = e.fileName
               /\ ("webViewLink" \in DOMAIN c) <=> (e.webViewLink # NoLink)
               /\ "webViewLink" \in DOMAIN c => c.webViewLink = e.webViewLink
               /\ DOMAIN c \subseteq {"fileId", "fileName", "webViewLink"}

\* six records pass the threshold, one of them exactly at 0.5: five are kept,
\* with and without a link, and the one below the threshold is not among them
C27_Witness ==
  /\ Retrieved
  /\ Len(chatLocals.embeddings) = 6
  /\ Len(chatLocals.matches) = 5
  /\ chatLocals.matches[1].similarity = 100
  /\ chatLocals.matches[5].similarity = 50
  /\ "webViewLink" \in DOMAIN chatLocals.citations[1]
  /\ "webViewLink" \notin DOMAIN chatLocals.citations[5]

\* ---- C28
EmbeddingFailed == chatLocals.embedding \in {"blank", "reject", "noData"}

\* C28: when generateEmbedding fails for the question, on a blank question or
\* on a failure of the embedding model, the request fails as a whole: the
\* handler has answered with the 500 JSON error response, not the token
\* stream, and neither performSimilaritySearch nor streamChatCompletion has
\* been called; a blank question always fails so; the search and the
\* generation are called only after the embedding succeeded.
C28_EmbeddingFailureFailsRequest ==
  /\ EmbeddingFailed =>
       /\ chatPc = "responded"
       /\ chatResponse.status = 500
       /\ chatResponse.body = "json"
       /\ chatResponse.error # ""
       /\ \A k \in 1..Len(chatCalls) :
            chatCalls[k] \notin {"performSimilaritySearch", "streamChatCompletion"}
       /\ chatLocals.matches = <<>>
  /\ (chatLocals.embedding # "" /\ Trim(chatRequest.question) = <<>>) =>
       chatLocals.embedding = "blank"
  /\ (\E k \in 1..Len(chatCalls) :
        chatCalls[k] \in {"performSimilaritySearch", "streamChatCompletion"}) =>
       chatLocals.embedding = "ok"
  /\ chatResponse.body = "stream" => chatLocals.embedding = "ok"

\* the embedding model rejected the question of a request whose snapshot
\* holds records that would have matched
C28_Witness ==
  /\ chatLocals.embedding = "reject"
  /\ chatPc = "responded"
  /\ chatResponse.status = 500
  /\ Len(chatLocals.embeddings) >= 2
  /\ chatCalls[Len(chatCalls)] = "generateEmbedding"

\* ---- C30
AllZero(v) == \A i \in 1..Len(v) : v[i] = 0

VectorCallDone(fn) == vectorPc = "done" /\ vectorArgs.fn = fn

\* C30: cosineSimilarity throws the same-length Error whenever its vectors
\* differ in length, and the zero-vector Error whenever they have the same
\* length and one of them is all zeros; normalizeVector throws its zero-vector
\* Error for an all-zero vector; in none of these cases is a number returned.
C30_VectorErrors ==
  /\ (VectorCallDone("cosineSimilarity") /\ Len(vectorArgs.a) # Len(vectorArgs.b)) =>
       /\ vectorResult.threw
       /\ vectorResult.error = "Vectors must have the same length"
       /\ vectorResult.value = <<>>
  /\ (VectorCallDone("cosineSimilarity") /\ Len(vectorArgs.a) = Len(vectorArgs.b)
        /\ (AllZero(vectorArgs.a) \/ AllZero(vectorArgs.b))) =>
       /\ vectorResult.threw
       /\ vectorResult.error = "Cannot compute similarity with zero vector"
       /\ vectorResult.value = <<>>
  /\ (VectorCallDone("normalizeVector") /\ AllZero(vectorArgs.a)) =>
       /\ vectorResult.threw
       /\ vectorResult.error = "Cannot normalize zero vector"
       /\ vectorResult.value = <<>>

\* cosineSimilarity was called with a vector and the zero vector of its length
C30_Witness ==
  /\ VectorCallDone("cosineSimilarity")
  /\ vectorArgs.a = <<3, 4, 0>>
  /\ vectorArgs.b = <<0, 0, 0>>
  /\ vectorResult.threw

\* ---- C31
\* C31: generateEmbedding called with an empty or all-blank text throws the
\* empty-input Error and sends no request to the model; when the model call
\* fails, the Error thrown carries the prefix 'Failed to generate embedding: '
\* followed by the message of the upstream Error.
C31_EmbeddingErrors ==
  embedPc = "done" =>
    /\ IsBlankText(embedCall.text) =>
         /\ embedResult.threw
         /\ embedResult.message = <<"Text content cannot be empty">>
         /\ createLog = <<>>
    /\ (~IsBlankText(embedCall.text) /\ embedCall.upstream.kind # "data") =>
         /\ embedResult.threw
         /\ Len(embedResult.message) = 2
         /\ embedResult.message[1] = "Failed to generate embedding: "
         /\ embedCall.upstream.kind = "error" =>
              embedResult.message[2] = embedCall.upstream.message
         /\ embedCall.upstream.kind = "noData" =>
              embedResult.message[2] = "No embedding returned from OpenAI"

\* a request for a text with a blank in it was rejected by the model and reported
C31_Witness ==
  /\ embedPc = "done"
  /\ embedCall.upstream.kind = "error"
  /\ embedCall.text = <<" ", "a">>
  /\ Len(createLog) = 1
  /\ embedResult.threw

\* ---- C32
\* C32: the chat page has sent requests to /api/embeddings only if the session is
\* authenticated and carries an accessToken; while the session is loading,
\* unauthenticated, or authenticated without accessToken, no request has been
\* sent and the chat view with its input is not rendered; when the first GET
\* returns a snapshot with records, that GET is the only request sent.
C32_LoadsOnlyWithToken ==
  /\ uiRequests # <<>> =>
       uiSession.status = "authenticated" /\ uiSession.accessToken
  /\ (uiSession.status \in {"loading", "unauthenticated"}
      \/ (uiSession.status = "authenticated" /\ ~uiSession.accessToken)) =>
       uiRequests = <<>> /\ View(uiSession) # "chat"
  /\ (uiRequests # <<>> /\ uiRequests[1].reply = "full") =>
       uiRequests = <<[method |-> "GET", reply |-> "full"]>>

\* an authenticated session's snapshot was loaded by a single GET and the chat
\* view is rendered
C32_Witness ==
  /\ uiPc = "returned"
  /\ uiSession.status = "authenticated"
  /\ uiState.embeddings = "loaded"
  /\ uiRequests = <<[method |-> "GET", reply |-> "full"]>>
  /\ View(uiSession) = "chat"

\* ---- C39
\* C39: once loadEmbeddings has returned after starting a sync pass (the POST),
\* whether the progress stream ended with or without a terminal event having
\* been recognised or a request failed, the page has isLoading = false, shows no
\* embedding progress, and displays the loaded embeddings or an error.
C39_LeavesLoadingState ==
  (uiPc = "returned" /\ \E i \in 1..Len(uiRequests) : uiRequests[i].method = "POST") =>
    /\ ~uiState.isLoading
    /\ uiState.progress = <<>>
    /\ ~ProgressShown(uiState)
    /\ (uiState.embeddings # "null" \/ uiState.error # "")

\* ---- C33
\* C33: the records of the snapshot a pass hands to the upload are the records
\* of the loaded snapshot whose fileId was not embedded again by this pass, in
\* their original order (records of files no longer listed among them),
\* followed by the records embedded in this pass, one per file embedded; the
\* embeddingDimension written is the vector length of a record written, or 0
\* when there is none.
C33_SnapshotRecords ==
  \A u \in 1..Len(uploadLog) :
    LET up == uploadLog[u].data.embeddings
        okIds == {toEmbed[k].id : k \in {j \in 1..Len(toEmbed) : task[j] = "ok"}}
        keep == SelectSeq(existingEmbeddings, LAMBDA e : e.fileId \notin okIds)
        fresh == SubSeq(up, Len(keep) + 1, Len(up))
        dim == uploadLog[u].data.metadata.embeddingDimension
    IN /\ Len(up) >= Len(keep)
       /\ SubSeq(up, 1, Len(keep)) = keep
       /\ \A j \in 1..Len(fresh) :
            /\ fresh[j].fileId \in okIds
            /\ fresh[j].extractedAt = now
            /\ \E k \in 1..Len(toEmbed) :
                 /\ task[k] = "ok"
                 /\ toEmbed[k].id = fresh[j].fileId
                 /\ toEmbed[k].modifiedTime = fresh[j].modifiedTime
       /\ {fresh[j].fileId : j \in 1..Len(fresh)} = okIds
       /\ Len(fresh) = Cardinality(okIds)
       /\ IF up = <<>> THEN dim = 0
          ELSE \E j \in 1..Len(up) : dim = Len(up[j].vector)

\* a second pass wrote the record of a file no longer listed and the record of an
\* untouched file, in their order, followed by the record it embedded again
C33_Witness ==
  /\ pc = "done"
  /\ now = 2
  /\ Len(uploadLog) = 1
  /\ \E j \in 1..Len(existingEmbeddings) : existingEmbeddings[j].fileId > numFiles
  /\ LET up == uploadLog[1].data.embeddings
     IN /\ Len(up) = 3
        /\ up[1].extractedAt = 1 /\ up[2].extractedAt = 1 /\ up[3].extractedAt = 2
        /\ up[2].fileId > numFiles
        /\ \E j \in 1..Len(existingEmbeddings) :
             existingEmbeddings[j].fileId = up[3].fileId

\* ---- C34
\* C34: within a pass the accumulated records (embedded) change only in the step
\* in which the last outstanding task of the current batch settles, and that
\* step merges the whole batch at once: no step that leaves a fetch or an
\* embedding task outstanding changes embedded, and no state lies between two
\* results of one batch.
C34_MergeAfterAllSettled ==
  [][(pc = "batch" /\ embedded' # embedded) =>
       /\ pc' \in {"delay", "upload"}
       /\ \A k \in BatchIdx(batchStart, Len(toEmbed)) : Settled(task'[k])
       /\ \A k \in 1..Len(task') : ~Outstanding(task'[k])
       /\ completed' = Min(batchStart + BATCH_SIZE, Len(toEmbed))
       /\ Len(events') = Len(events) + (completed' - completed)]_vars

\* a task of the batch has fulfilled with its embedding while another is still
\* outstanding, and the accumulated records are those loaded
C34_Witness ==
  /\ pc = "batch"
  /\ \E k \in 1..Len(task) : task[k] = "ok"
  /\ \E k \in 1..Len(task) : Outstanding(task[k])
  /\ existingEmbeddings # <<>>
  /\ embedded = existingEmbeddings

\* ---- C35
\* C35: when a task of a batch has started, the outcome of every file of the
\* batches before it has been reported as a progress or error event naming the
\* file, in order; the current values of the progress events of a pass are
\* strictly increasing and none exceeds the number of files to embed, which is
\* the total they carry.
C35_ReportedBeforeNextBatch ==
  LET perFile == SelectSeq(events, LAMBDA e :
                   e.type = "progress" \/ (e.type = "error" /\ e.fileName # NoId))
      prog == SelectSeq(events, LAMBDA e : e.type = "progress")
  IN /\ \A k \in 1..Len(task) :
          task[k] # "waiting" =>
            \A j \in 1..(((k - 1) \div BATCH_SIZE) * BATCH_SIZE) :
               /\ j <= Len(perFile)
               /\ perFile[j].fileName = toEmbed[j].id
     /\ \A a \in 1..Len(prog) :
          /\ prog[a].current <= prog[a].total
          /\ prog[a].total = Len(toEmbed)
          /\ \A b \in (a + 1)..Len(prog) : prog[a].current < prog[b].current

\* the second batch runs after a first batch of five files, one of which failed,
\* was reported
C35_Witness ==
  /\ pc = "batch"
  /\ batchStart = BATCH_SIZE
  /\ \E k \in 1..Len(task) : k > BATCH_SIZE /\ Outstanding(task[k])
  /\ Len(SelectSeq(events, LAMBDA e : e.type = "progress")) = BATCH_SIZE - 1
  /\ Len(SelectSeq(events, LAMBDA e : e.type = "error" /\ e.fileName # NoId)) = 1

C37_ReadAfterWrite ==
  (pc = "done" /\ uploadLog # <<>>) =>
    \A s \in 1..Len(remoteSnapshots) :
       remoteSnapshots[s].embeddings = uploadLog[Len(uploadLog)].data.embeddings

\* ---- C38
\* what the reader parses from the body uploadEmbeddingsFile wrote:
\* JSON.stringify leaves out a property whose value is undefined, and the checks
\* of the reader take '' as missing, 0 as a number
JsonOf(file) ==
  Payload("object", "array",
          IF file.version = "" THEN "absent" ELSE "set",
          IF file.generatedAt = Undefined THEN "absent" ELSE "set",
          IF file.totalFiles = Undefined THEN "absent" ELSE "number",
          IF file.metadata.openaiModel = "" THEN "noModel"
          ELSE IF file.metadata.embeddingDimension = Undefined THEN "noDimension"
          ELSE "ok")

C40_ErrorIffLastRefreshFailed ==
  authSession # NoAuthSession =>
    /\ authSession.error = RefreshError <=>
         (refreshLog # <<>> /\ refreshLog[Len(refreshLog)] = "failed")
    /\ (refreshLog # <<>> /\ refreshLog[Len(refreshLog)] = "ok") =>
         authSession.accessToken = authToken.accessToken
====
